---- MODULE Spec2Model ----
(***************************************************************************)
(* Copilot Bumper (lib/bumper.js): the signal extractors as operators and  *)
(* run() with its nested processNotification as a state machine with one   *)
(* action per suspension point (await) of the code.                        *)
(***************************************************************************)
EXTENDS Integers, Sequences, FiniteSets

(* ----------------------------- bounds --------------------------------- *)
\* Longest PR notification list when the remote service may answer with any
\* of the detailed fetch results (RichPrs, TimelineResults, ...).
MaxNotifs == 2
\* Longest PR notification list when the remote service answers with the
\* plain fetch results only (LeanPrs, no events, comments, checks, reviews).
MaxLeanNotifs == 6
\* Most notifications of one list that repeat the PR of an earlier one.
MaxDups == 1
\* Most comments in an array handed to findRelevantComment.
MaxComments == 2
\* Longest PR notification list when two invocations of run() take turns.
MaxPairNotifs == 1

(* ------------------------ program constants --------------------------- *)
ONE_HOUR_IN_MS == 60 * 60 * 1000
MAX_COMMENTS_PER_RUN == 5
MIN_BUMPS_FOR_SECOND_PASS == 2
STALL_THRESHOLD_MS == ONE_HOUR_IN_MS
RELAXED_STALL_THRESHOLD_MS == 30 * 60 * 1000

\* JS null for a string-valued field (pr.body, pr.mergeable, user.login)
Null == "<null>"
\* JS undefined / null for an object (a comment that find did not find)
Undefined == [undefined |-> TRUE]

(* ------------------------------ strings ------------------------------- *)
\* A JS string is kept in the state as a TLA+ string; Chars gives its
\* characters, on which toLowerCase, toUpperCase, trim and includes work.
Chars(s) ==
  CASE s = "copilot[bot]" -> <<"c", "o", "p", "i", "l", "o", "t", "[", "b", "o", "t", "]">>
    []     s = "alice" -> <<"a", "l", "i", "c", "e">>
    []     s = "me" -> <<"m", "e">>
    []     s = "other" -> <<"o", "t", "h", "e", "r">>
    []     s = "WIP: add feature" -> <<"W", "I", "P", ":", " ", "a", "d", "d", " ", "f", "e", "a", "t", "u", "r", "e">>
    []     s = "Fix bug" -> <<"F", "i", "x", " ", "b", "u", "g">>
    []     s = "Copilot: Fix bug" -> <<"C", "o", "p", "i", "l", "o", "t", ":", " ", "F", "i", "x", " ", "b", "u", "g">>
    []     s = "Swipe fix" -> <<"S", "w", "i", "p", "e", " ", "f", "i", "x">>
    []     s = "Created by Copilot" -> <<"C", "r", "e", "a", "t", "e", "d", " ", "b", "y", " ", "C", "o", "p", "i", "l", "o", "t">>
    []     s = "This fixes the issue" -> <<"T", "h", "i", "s", " ", "f", "i", "x", "e", "s", " ", "t", "h", "e", " ", "i", "s", "s", "u", "e">>
    []     s = "All done, this is fixed" -> <<"A", "l", "l", " ", "d", "o", "n", "e", ",", " ", "t", "h", "i", "s", " ", "i", "s", " ", "f", "i", "x", "e", "d">>
    []     s = "I encountered an error while working" -> <<"I", " ", "e", "n", "c", "o", "u", "n", "t", "e", "r", "e", "d", " ", "a", "n", " ", "e", "r", "r", "o", "r", " ", "w", "h", "i", "l", "e", " ", "w", "o", "r", "k", "i", "n", "g">>
    []     s = "Still working on it" -> <<"S", "t", "i", "l", "l", " ", "w", "o", "r", "k", "i", "n", "g", " ", "o", "n", " ", "i", "t">>
    []     s = "@copilot still working?" -> <<"@", "c", "o", "p", "i", "l", "o", "t", " ", "s", "t", "i", "l", "l", " ", "w", "o", "r", "k", "i", "n", "g", "?">>
    []     s = "@copilot please implement the feedback left on this PR." -> <<"@", "c", "o", "p", "i", "l", "o", "t", " ", "p", "l", "e", "a", "s", "e", " ", "i", "m", "p", "l", "e", "m", "e", "n", "t", " ", "t", "h", "e", " ", "f", "e", "e", "d", "b", "a", "c", "k", " ", "l", "e", "f", "t", " ", "o", "n", " ", "t", "h", "i", "s", " ", "P", "R", ".">>
    []     s = "@copilot There is a merge conflict with the base branch. Please merge in the base branch and resolve the conflicts." -> <<"@", "c", "o", "p", "i", "l", "o", "t", " ", "T", "h", "e", "r", "e", " ", "i", "s", " ", "a", " ", "m", "e", "r", "g", "e", " ", "c", "o", "n", "f", "l", "i", "c", "t", " ", "w", "i", "t", "h", " ", "t", "h", "e", " ", "b", "a", "s", "e", " ", "b", "r", "a", "n", "c", "h", ".", " ", "P", "l", "e", "a", "s", "e", " ", "m", "e", "r", "g", "e", " ", "i", "n", " ", "t", "h", "e", " ", "b", "a", "s", "e", " ", "b", "r", "a", "n", "c", "h", " ", "a", "n", "d", " ", "r", "e", "s", "o", "l", "v", "e", " ", "t", "h", "e", " ", "c", "o", "n", "f", "l", "i", "c", "t", "s", ".">>
    []     s = "@copilot The CI checks are failing. Please fix the failing tests or build issues." -> <<"@", "c", "o", "p", "i", "l", "o", "t", " ", "T", "h", "e", " ", "C", "I", " ", "c", "h", "e", "c", "k", "s", " ", "a", "r", "e", " ", "f", "a", "i", "l", "i", "n", "g", ".", " ", "P", "l", "e", "a", "s", "e", " ", "f", "i", "x", " ", "t", "h", "e", " ", "f", "a", "i", "l", "i", "n", "g", " ", "t", "e", "s", "t", "s", " ", "o", "r", " ", "b", "u", "i", "l", "d", " ", "i", "s", "s", "u", "e", "s", ".">>
    []     s = "@copilot please implement the feedback" -> <<"@", "c", "o", "p", "i", "l", "o", "t", " ", "p", "l", "e", "a", "s", "e", " ", "i", "m", "p", "l", "e", "m", "e", "n", "t", " ", "t", "h", "e", " ", "f", "e", "e", "d", "b", "a", "c", "k">>
    []     s = "@copilot There is a merge conflict" -> <<"@", "c", "o", "p", "i", "l", "o", "t", " ", "T", "h", "e", "r", "e", " ", "i", "s", " ", "a", " ", "m", "e", "r", "g", "e", " ", "c", "o", "n", "f", "l", "i", "c", "t">>
    []     s = "@copilot The CI checks are failing" -> <<"@", "c", "o", "p", "i", "l", "o", "t", " ", "T", "h", "e", " ", "C", "I", " ", "c", "h", "e", "c", "k", "s", " ", "a", "r", "e", " ", "f", "a", "i", "l", "i", "n", "g">>
    []     s = "YES" -> <<"Y", "E", "S">>
    []     s = " Yes, resolved " -> <<" ", "Y", "e", "s", ",", " ", "r", "e", "s", "o", "l", "v", "e", "d", " ">>
    []     s = "NO" -> <<"N", "O">>
    []     s = "maybe" -> <<"m", "a", "y", "b", "e">>
    []     s = "copilot" -> <<"c", "o", "p", "i", "l", "o", "t">>
    []     s = "wip" -> <<"w", "i", "p">>
    []     s = "i encountered an error" -> <<"i", " ", "e", "n", "c", "o", "u", "n", "t", "e", "r", "e", "d", " ", "a", "n", " ", "e", "r", "r", "o", "r">>
    []     s = "i ran into an error" -> <<"i", " ", "r", "a", "n", " ", "i", "n", "t", "o", " ", "a", "n", " ", "e", "r", "r", "o", "r">>
    []     s = "an error occurred" -> <<"a", "n", " ", "e", "r", "r", "o", "r", " ", "o", "c", "c", "u", "r", "r", "e", "d">>
    []     s = "i'm having trouble" -> <<"i", "'", "m", " ", "h", "a", "v", "i", "n", "g", " ", "t", "r", "o", "u", "b", "l", "e">>
    []     s = "i was unable to" -> <<"i", " ", "w", "a", "s", " ", "u", "n", "a", "b", "l", "e", " ", "t", "o">>
    []     s = "i couldn't" -> <<"i", " ", "c", "o", "u", "l", "d", "n", "'", "t">>
    []     s = "failed to" -> <<"f", "a", "i", "l", "e", "d", " ", "t", "o">>
    []     s = "something went wrong" -> <<"s", "o", "m", "e", "t", "h", "i", "n", "g", " ", "w", "e", "n", "t", " ", "w", "r", "o", "n", "g">>
    []     s = "i apologize" -> <<"i", " ", "a", "p", "o", "l", "o", "g", "i", "z", "e">>
    []     s = "unfortunately" -> <<"u", "n", "f", "o", "r", "t", "u", "n", "a", "t", "e", "l", "y">>
    []     s = "i'm sorry" -> <<"i", "'", "m", " ", "s", "o", "r", "r", "y">>
    []     s = "yes" -> <<"y", "e", "s">>
    []     s = "Eyes on it" -> <<"E", "y", "e", "s", " ", "o", "n", " ", "i", "t">>
    []     s = "Y E S" -> <<"Y", " ", "E", " ", "S">>
    []     s = "No, not yet" -> <<"N", "o", ",", " ", "n", "o", "t", " ", "y", "e", "t">>
    []     s = "> @copilot still working? (asked twice)" -> <<">", " ", "@", "c", "o", "p", "i", "l", "o", "t", " ", "s", "t", "i", "l", "l", " ", "w", "o", "r", "k", "i", "n", "g", "?", " ", "(", "a", "s", "k", "e", "d", " ", "t", "w", "i", "c", "e", ")">>
    []     s = "On it. @copilot The CI checks are failing again" -> <<"O", "n", " ", "i", "t", ".", " ", "@", "c", "o", "p", "i", "l", "o", "t", " ", "T", "h", "e", " ", "C", "I", " ", "c", "h", "e", "c", "k", "s", " ", "a", "r", "e", " ", "f", "a", "i", "l", "i", "n", "g", " ", "a", "g", "a", "i", "n">>
    []     s = "" -> <<>>

UPPER == <<"A","B","C","D","E","F","G","H","I","J","K","L","M",
           "N","O","P","Q","R","S","T","U","V","W","X","Y","Z">>
LOWER == <<"a","b","c","d","e","f","g","h","i","j","k","l","m",
           "n","o","p","q","r","s","t","u","v","w","x","y","z">>

ToLowerCase(cs) ==
  [i \in 1..Len(cs) |->
     IF \E j \in 1..26 : UPPER[j] = cs[i]
       THEN LOWER[CHOOSE j \in 1..26 : UPPER[j] = cs[i]]
       ELSE cs[i]]

ToUpperCase(cs) ==
  [i \in 1..Len(cs) |->
     IF \E j \in 1..26 : LOWER[j] = cs[i]
       THEN UPPER[CHOOSE j \in 1..26 : LOWER[j] = cs[i]]
       ELSE cs[i]]

IsSpace(c) == c \in {" ", "\n", "\t"}

Trim(cs) ==
  LET keep == {i \in 1..Len(cs) : ~IsSpace(cs[i])}
  IN  IF keep = {} THEN <<>>
      ELSE LET lo == CHOOSE i \in keep : \A j \in keep : i <= j
               hi == CHOOSE i \in keep : \A j \in keep : j <= i
           IN  SubSeq(cs, lo, hi)

Includes(cs, needle) ==
  \E i \in 0..(Len(cs) - Len(needle)) : SubSeq(cs, i + 1, i + Len(needle)) = needle

\* Array.prototype.find: the first element satisfying Test, or undefined.
Find(arr, Test(_)) ==
  IF \E i \in 1..Len(arr) : Test(arr[i])
    THEN arr[CHOOSE i \in 1..Len(arr) : Test(arr[i]) /\ \A j \in 1..(i - 1) : ~Test(arr[j])]
    ELSE Undefined

Some(arr, Test(_)) == \E i \in 1..Len(arr) : Test(arr[i])

(* ------------------------- signal extractors -------------------------- *)
\* A pull request snapshot: [login, title, body, draft, age, mergeable,
\* mergeable_state]; body may be Null, mergeable is "true", "false" or
\* Null (not computed yet); age is
\* new Date() - new Date(pr.updated_at) at the time of the evaluation.
isCopilotPr(pr) ==
  LET isCopilotUser == pr.login = "copilot[bot]"
      titleHasCopilot == Includes(ToLowerCase(Chars(pr.title)), Chars("copilot"))
      bodyHasCopilot == IF pr.body = Null THEN FALSE
                        ELSE Includes(ToLowerCase(Chars(pr.body)), Chars("copilot"))
  IN  isCopilotUser \/ titleHasCopilot \/ bodyHasCopilot

isWip(pr) ==
  Includes(ToLowerCase(Chars(pr.title)), Chars("wip")) \/ pr.draft = TRUE

getTimeSinceUpdate(pr) == pr.age

\* (variant: a PR is stalled from the threshold on)
isStalledAtThreshold(pr, thresholdMs) ==
  LET timeSinceUpdate == pr.age
  IN  timeSinceUpdate >= thresholdMs

isStalled(pr, thresholdMs) ==
  LET timeSinceUpdate == pr.age
  IN  timeSinceUpdate > thresholdMs

\* The four markers by which findRelevantComment recognises a nudge.
NudgeMarkers ==
  { "@copilot still working?",
    "@copilot please implement the feedback",
    "@copilot There is a merge conflict",
    "@copilot The CI checks are failing" }

\* (variant: only the generic nudge is recognised)
IsRelevantCommentGenericOnly(comment) ==
  ~Includes(Chars(comment.body), Chars("@copilot still working?"))

IsRelevantComment(comment) ==
  \A m \in NudgeMarkers : ~Includes(Chars(comment.body), Chars(m))

findRelevantComment(comments) == Find(comments, IsRelevantComment)

\* Arrays are sequences; every caller in run() passes an array, so the
\* !Array.isArray guards of the extractors never take their branch.
IsHumanReviewComment(comment) ==
  comment.login # Null /\ comment.login # "copilot[bot]"

findLatestReviewComment(reviewComments) == Find(reviewComments, IsHumanReviewComment)

\* (variant: only review comments that findLatestReviewComment would return
\* count as feedback)
hasReviewCommentsByHuman(reviewComments) ==
  findLatestReviewComment(reviewComments) # Undefined

hasReviewComments(reviewComments) == Len(reviewComments) > 0

\* (variant: mergeable is tested for falsiness, null passes)
hasMergeConflictFalsy(pr) ==
  pr.mergeable # "true" /\ pr.mergeable_state = "dirty"

hasMergeConflict(pr) ==
  pr.mergeable = "false" /\ pr.mergeable_state = "dirty"

errorPatterns ==
  { "i encountered an error", "i ran into an error", "an error occurred",
    "i'm having trouble", "i was unable to", "i couldn't", "failed to",
    "something went wrong", "i apologize", "unfortunately", "i'm sorry" }

isCopilotError(comment) ==
  IF comment = Undefined THEN FALSE
  ELSE IF comment.body = Null THEN FALSE
  ELSE IF comment.login # "copilot[bot]" THEN FALSE
  ELSE LET body == ToLowerCase(Chars(comment.body))
       IN  \E pattern \in errorPatterns : Includes(body, Chars(pattern))

IsSessionStopped(event) == event.event = "copilot_session_stopped"

hasCopilotSessionStopped(timelineEvents) ==
  Some(timelineEvents, IsSessionStopped)

IsFailedSession(event) ==
  event.event = "copilot_session_stopped" /\ event.outcome = "failure"

hasFailedCopilotSession(timelineEvents) ==
  Some(timelineEvents, IsFailedSession)

IsFailingRun(run) ==
  \/ run.conclusion = "failure"
  \/ run.conclusion = "action_required"
  \/ run.conclusion = "timed_out"

hasFailingCheckRuns(checkRuns) ==
  Some(checkRuns, IsFailingRun)

\* isIssueFixed: reply is the text the oracle returned, or "<throws>" when
\* the call to openai.chat.completions.create rejects.
Throws == "<throws>"

\* (variant: the reply must be YES and nothing else)
isIssueFixedExact(latestComment, openai, reply) ==
  IF latestComment = Undefined \/ ~openai THEN FALSE
  ELSE IF reply = Throws THEN FALSE
  ELSE LET response == ToUpperCase(Trim(Chars(reply)))
       IN  response = Chars("YES")

\* (variant: a failure of the oracle counts as fixed)
isIssueFixedOnThrow(latestComment, openai, reply) ==
  IF latestComment = Undefined \/ ~openai THEN FALSE
  ELSE IF reply = Throws THEN TRUE
  ELSE LET response == ToUpperCase(Trim(Chars(reply)))
       IN  Includes(response, Chars("YES"))

isIssueFixed(latestComment, openai, reply) ==
  IF latestComment = Undefined \/ ~openai THEN FALSE
  ELSE IF reply = Throws THEN FALSE
  ELSE LET response == ToUpperCase(Trim(Chars(reply)))
       IN  Includes(response, Chars("YES"))

(* ------------------ notification filtering and order ------------------ *)
\* (variant: the filter of lines 272-276, by type only)
filterPrNotificationsByTypeOnly(notifications, skipNonOwned, authenticatedUserLogin) ==
  LET Keep(notification) == notification.type = "PullRequest"
  IN  SelectSeq(notifications, Keep)

\* A notification: [type, owner, number]; owner stands for the repository
\* (owner login and repository name), number for the last segment of
\* subject.url.
filterPrNotifications(notifications, skipNonOwned, authenticatedUserLogin) ==
  LET Keep(notification) ==
        IF notification.type # "PullRequest" THEN FALSE
        ELSE IF skipNonOwned /\ authenticatedUserLogin # Null
                /\ notification.owner # authenticatedUserLogin THEN FALSE
        ELSE TRUE
  IN  SelectSeq(notifications, Keep)

RemoveAt(s, i) == SubSeq(s, 1, i - 1) \o SubSeq(s, i + 1, Len(s))

RECURSIVE Orderings(_)
Orderings(s) ==
  IF s = <<>> THEN {<<>>}
  ELSE UNION {{<<s[i]>> \o p : p \in Orderings(RemoveAt(s, i))} : i \in 1..Len(s)}

\* sort with a random comparator: any permutation of a copy of the array.
shuffleArray(array) == Orderings(array)

PrKey(notification) == <<notification.owner, notification.number>>

\* PR keys are compared for equality only (processedPrKeys.has), so a list
\* is kept up to renaming of the PR numbers: the k-th distinct PR of the
\* list gets number k.
RankOf(list, i) ==
  Cardinality({PrKey(list[j]) : j \in 1..i})

FirstIndex(list, i) ==
  CHOOSE j \in 1..i : PrKey(list[j]) = PrKey(list[i])
                      /\ \A h \in 1..(j - 1) : PrKey(list[h]) # PrKey(list[i])

Renumbered(list) ==
  [i \in 1..Len(list) |->
     [list[i] EXCEPT !.number = RankOf(list, FirstIndex(list, i))]]

(* --------------------- what the remote service returns ---------------- *)
\* head_checks: the check runs the service holds for pr.head.sha.
Pr(login, title, body, draft, age, mergeable, mergeable_state) ==
  [login |-> login, title |-> title, body |-> body, draft |-> draft, age |-> age,
   mergeable |-> mergeable, mergeable_state |-> mergeable_state, head_checks |-> <<>>]

PrWip        == Pr("copilot[bot]", "WIP: add feature", Null, FALSE, 2 * ONE_HOUR_IN_MS, "true", "clean")
PrConflict   == Pr("copilot[bot]", "WIP: add feature", Null, FALSE, 2 * ONE_HOUR_IN_MS, "false", "dirty")
PrNotWip     == Pr("copilot[bot]", "Fix bug", "This fixes the issue", FALSE, 3 * ONE_HOUR_IN_MS, Null, "dirty")
PrHourOld    == Pr("alice", "Copilot: Fix bug", Null, TRUE, ONE_HOUR_IN_MS, "true", "clean")
PrFresh      == Pr("copilot[bot]", "Swipe fix", Null, FALSE, RELAXED_STALL_THRESHOLD_MS, "true", "clean")
PrHuman      == Pr("alice", "Fix bug", "This fixes the issue", FALSE, 2 * ONE_HOUR_IN_MS, "false", "dirty")

LeanPrs == {PrWip, PrHourOld}

Event(event, outcome) == [event |-> event, outcome |-> outcome]
RichTimelines ==
  { <<>>,
    <<Event("commented", Null), Event("copilot_session_stopped", "success")>>,
    <<Event("copilot_session_stopped", "failure")>> }

Comment(login, body) == [login |-> login, body |-> body]
RichComments ==
  { <<>>,
    <<Comment("alice", "All done, this is fixed")>>,
    <<Comment("copilot[bot]", "I encountered an error while working")>>,
    <<Comment("me", "@copilot still working?"), Comment("alice", "Still working on it")>> }

LeanComments == {<<Comment("alice", "Still working on it")>>}

CheckRun(conclusion) == [conclusion |-> conclusion]
ChecksGreen == <<CheckRun("success"), CheckRun(Null), CheckRun("skipped")>>
ChecksRed == <<CheckRun("success"), CheckRun("failure")>>

RichPrs ==
  {[pr EXCEPT !.head_checks = checkRuns] :
     pr \in {PrWip, PrConflict, PrNotWip}, checkRuns \in {ChecksGreen, ChecksRed}}
  \cup {PrHourOld, PrFresh, PrHuman}

RichReviewComments ==
  { <<>>,
    <<Comment("alice", "Still working on it")>>,
    <<Comment("copilot[bot]", "All done, this is fixed")>> }

RichReplies == {"YES", " Yes, resolved ", "NO", "maybe", Throws}
LeanReplies == {"NO", Throws}

\* The fetch results of one run: detailed (rich) or plain.
Prs(rich)            == IF rich THEN RichPrs ELSE LeanPrs
Timelines(rich)      == IF rich THEN RichTimelines ELSE {<<>>}
IssueComments(rich)  == IF rich THEN RichComments ELSE LeanComments
ReviewComments(rich) == IF rich THEN RichReviewComments ELSE {<<>>}
OracleReplies(rich)  == IF rich THEN RichReplies ELSE LeanReplies

Distinct(s) == Cardinality({s[i] : i \in 1..Len(s)})

IsNumberList(s, dups) ==
  /\ \A i \in 1..Len(s) : s[i] <= Distinct(SubSeq(s, 1, i - 1)) + 1
  /\ Len(s) - Distinct(s) <= dups

\* All lists of at most n PR numbers, numbered by first appearance, with
\* at most dups repeated numbers.
RECURSIVE NumberLists(_, _)
NumberLists(n, dups) ==
  IF n = 0 THEN {<<>>}
  ELSE LET shorter == NumberLists(n - 1, dups)
           longest == {t \in shorter : Len(t) = n - 1}
       IN  shorter \cup {l \in {Append(s, k) : s \in longest, k \in 1..n} :
                           IsNumberList(l, dups)}

\* The notification lists the service may return. Detailed runs: owned PRs,
\* at most MaxDups of them for a PR already in the list, possibly with an
\* issue notification or a PR of another owner. Plain runs: distinct owned
\* PRs.
OwnedPrs(numbers) ==
  [i \in 1..Len(numbers) |-> [type |-> "PullRequest", owner |-> "me", number |-> numbers[i]]]

IssueNotification == [type |-> "Issue", owner |-> "me", number |-> 1]
ForeignPr == [type |-> "PullRequest", owner |-> "other", number |-> 1]

NotificationLists(rich) ==
  IF rich
    THEN LET full == {OwnedPrs(s) : s \in NumberLists(MaxNotifs, MaxDups)}
             short == {OwnedPrs(s) : s \in NumberLists(MaxNotifs - 1, MaxDups)}
             shortest == {OwnedPrs(s) : s \in NumberLists(MaxNotifs - 2, 0)}
         IN  full \cup {<<IssueNotification>> \o l : l \in short}
                  \cup {<<ForeignPr>> \o l : l \in shortest}
    ELSE {OwnedPrs(s) : s \in NumberLists(MaxLeanNotifs, 0)}

(* ------------------------------- state -------------------------------- *)
VARIABLES
  token,                 \* a credential is provided (options.token || process.env.PAT)
  dryRun,
  skipNonOwnedRepos,
  rich,                  \* the service answers with the detailed fetch results
  openai,                \* initializeOpenAI returned a client (TRUE) or null
  authenticatedUser,     \* login of the authenticated user, Null before the lookup
  shuffledNotifications,
  commentsCount,
  processedPrKeys,
  pass,                  \* 1: STALL_THRESHOLD_MS, 2: RELAXED_STALL_THRESHOLD_MS
  idx,                   \* position of the for-of loop in shuffledNotifications
  pc,                    \* the pending await of run / processNotification
  local,                 \* the locals of the current processNotification call
  result,                \* how the last processNotification call ended
  dispatchLog,           \* the nudges of this run, in order: [key, pass, how]
  suspended              \* another invocation of run() that waits for its turn, or NoInvocation

vars == <<token, dryRun, skipNonOwnedRepos, rich, openai, authenticatedUser,
          shuffledNotifications, commentsCount, processedPrKeys, pass, idx, pc,
          local, result, dispatchLog, suspended>>

config == <<token, dryRun, skipNonOwnedRepos, rich>>

NoLocal ==
  [prKey |-> <<>>, pr |-> Undefined, isCopilot |-> FALSE, wipStatus |-> FALSE,
   stalledStatus |-> FALSE, timelineEvents |-> <<>>, sessionStopped |-> FALSE,
   comments |-> <<>>, hasError |-> FALSE, hasSessionFailure |-> FALSE,
   hasFailingChecks |-> FALSE, latestComment |-> Undefined, isFixed |-> FALSE,
   reviewComments |-> <<>>, hasFeedback |-> FALSE, mergeConflict |-> FALSE,
   commentBody |-> Null]

\* run() has not been called a second time.
NoInvocation == [pc |-> "not-called"]

\* (variant: the relaxed threshold is never applied)
stallThresholdStrict == STALL_THRESHOLD_MS

\* The threshold of the running pass (lines 611 and 626).
stallThresholdMs == IF pass = 1 THEN STALL_THRESHOLD_MS ELSE RELAXED_STALL_THRESHOLD_MS

\* The state at the call of run(options), whatever the options.
Start ==
  /\ token \in BOOLEAN
  /\ dryRun \in BOOLEAN
  /\ skipNonOwnedRepos \in (IF rich THEN BOOLEAN ELSE {TRUE})
  /\ openai = FALSE
  /\ authenticatedUser = Null
  /\ shuffledNotifications = <<>>
  /\ commentsCount = 0
  /\ processedPrKeys = {}
  /\ pass = 1
  /\ idx = 1
  /\ pc = "run"
  /\ local = NoLocal
  /\ result = "none"
  /\ dispatchLog = <<>>

\* A run against detailed fetch results, few notifications.
Init == rich = TRUE /\ suspended = NoInvocation /\ Start

\* A run against plain fetch results, many notifications.
InitLong == rich = FALSE /\ suspended = NoInvocation /\ Start

(* ------------------------------- run() -------------------------------- *)
\* (variant: the token is not checked)
StartRunUnchecked ==
  /\ pc = "run"
  /\ openai' \in (IF rich THEN BOOLEAN ELSE {TRUE})
  /\ pc' = "users.getAuthenticated"
  /\ UNCHANGED <<config, suspended, authenticatedUser, shuffledNotifications, commentsCount,
                 processedPrKeys, pass, idx, local, result, dispatchLog>>

\* run, up to the first await: the token check and initializeOpenAI.
StartRun ==
  /\ pc = "run"
  /\ \/ /\ ~token
        /\ pc' = "failed"
        /\ UNCHANGED openai
     \/ /\ token
        /\ openai' \in (IF rich THEN BOOLEAN ELSE {TRUE})
        /\ pc' = "users.getAuthenticated"
  /\ UNCHANGED <<config, suspended, authenticatedUser, shuffledNotifications, commentsCount,
                 processedPrKeys, pass, idx, local, result, dispatchLog>>

GetAuthenticated ==
  /\ pc = "users.getAuthenticated"
  /\ \/ /\ authenticatedUser' = "me"
        /\ pc' = "listNotificationsForAuthenticatedUser"
     \/ /\ pc' = "failed"
        /\ UNCHANGED authenticatedUser
  /\ UNCHANGED <<config, suspended, openai, shuffledNotifications, commentsCount,
                 processedPrKeys, pass, idx, local, result, dispatchLog>>

\* The notifications arrive, are filtered and shuffled; the first
\* processNotification call of pass 1 is next.
ListNotifications ==
  /\ pc = "listNotificationsForAuthenticatedUser"
  /\ \/ \E notifications \in NotificationLists(rich) :
          LET prNotifications ==
                filterPrNotifications(notifications, skipNonOwnedRepos, authenticatedUser)
          IN  /\ shuffledNotifications' \in
                   {Renumbered(s) : s \in shuffleArray(prNotifications)}
              /\ pc' = "loop"
     \/ /\ pc' = "failed"
        /\ UNCHANGED shuffledNotifications
  /\ UNCHANGED <<config, suspended, openai, authenticatedUser, commentsCount,
                 processedPrKeys, pass, idx, local, result, dispatchLog>>

\* (variant: the floor of the second pass is dropped)
SecondPassWantedBelowLimit(count) == count < MAX_COMMENTS_PER_RUN

\* The condition of the second pass (line 621).
SecondPassWanted(count) ==
  count < MIN_BUMPS_FOR_SECOND_PASS /\ count < MAX_COMMENTS_PER_RUN

\* (variant: the second pass starts at the last notification)
AfterPassFromTheEnd ==
  IF pass = 1 /\ SecondPassWanted(commentsCount)
    THEN pass' = 2 /\ idx' = Len(shuffledNotifications) /\ pc' = "loop"
    ELSE pass' = pass /\ idx' = idx /\ pc' = "completed"

\* What follows a pass: the second pass or the end of run.
AfterPass ==
  IF pass = 1 /\ SecondPassWanted(commentsCount)
    THEN pass' = 2 /\ idx' = 1 /\ pc' = "loop"
    ELSE pass' = pass /\ idx' = idx /\ pc' = "completed"

\* The for-of loop has no notification left.
EndOfPass ==
  /\ pc = "loop"
  /\ idx > Len(shuffledNotifications)
  /\ UNCHANGED <<config, suspended, openai, authenticatedUser, shuffledNotifications,
                 commentsCount, processedPrKeys, local, result, dispatchLog>>
  /\ AfterPass

\* (variant: the loop does not break at the limit)
AfterNotificationNoBreak ==
  /\ pc = "returned"
  /\ local' = NoLocal
  /\ result' = "none"
  /\ UNCHANGED <<config, suspended, openai, authenticatedUser, shuffledNotifications,
                 commentsCount, processedPrKeys, dispatchLog>>
  /\ pass' = pass /\ idx' = idx + 1 /\ pc' = "loop"

\* (variant: the loop stays on a notification whose PR was left out of
\* processedPrKeys)
AfterNotificationRetry ==
  /\ pc = "returned"
  /\ local' = NoLocal
  /\ result' = "none"
  /\ UNCHANGED <<config, suspended, openai, authenticatedUser, shuffledNotifications,
                 commentsCount, processedPrKeys, dispatchLog>>
  /\ IF commentsCount >= MAX_COMMENTS_PER_RUN
       THEN AfterPass
       ELSE /\ pass' = pass
            /\ idx' = IF local.prKey \in processedPrKeys THEN idx + 1 ELSE idx
            /\ pc' = "loop"

\* (variant: the loop breaks only above the limit)
AfterNotificationBreaksLate ==
  /\ pc = "returned"
  /\ local' = NoLocal
  /\ result' = "none"
  /\ UNCHANGED <<config, suspended, openai, authenticatedUser, shuffledNotifications,
                 commentsCount, processedPrKeys, dispatchLog>>
  /\ IF commentsCount > MAX_COMMENTS_PER_RUN
       THEN AfterPass
       ELSE pass' = pass /\ idx' = idx + 1 /\ pc' = "loop"

\* processNotification has returned: the limit check of the loop body.
AfterNotification ==
  /\ pc = "returned"
  /\ local' = NoLocal
  /\ result' = "none"
  /\ UNCHANGED <<config, suspended, openai, authenticatedUser, shuffledNotifications,
                 commentsCount, processedPrKeys, dispatchLog>>
  /\ IF commentsCount >= MAX_COMMENTS_PER_RUN
       THEN AfterPass
       ELSE pass' = pass /\ idx' = idx + 1 /\ pc' = "loop"

(* ------------------------ processNotification ------------------------- *)
\* (variant: no return adds the key to processedPrKeys)
ReturnAddsNothing(how, add) ==
  /\ pc' = "returned"
  /\ result' = how
  /\ processedPrKeys' = processedPrKeys

\* (variant: the error of the PR fetch is thrown on to run)
ReturnRethrows(how, add) ==
  /\ pc' = IF how = "fetch-error" THEN "failed" ELSE "returned"
  /\ result' = how
  /\ processedPrKeys' = IF add THEN processedPrKeys \cup {local'.prKey} ELSE processedPrKeys

\* (variant: a PR judged fixed is left out of processedPrKeys)
ReturnLeavesFixedOpen(how, add) ==
  /\ pc' = "returned"
  /\ result' = how
  /\ processedPrKeys' = IF add /\ how # "fixed" THEN processedPrKeys \cup {local'.prKey}
                        ELSE processedPrKeys

\* return from processNotification; add tells whether prKey was added to
\* processedPrKeys on the way out.
Return(how, add) ==
  /\ pc' = "returned"
  /\ result' = how
  /\ processedPrKeys' = IF add THEN processedPrKeys \cup {local'.prKey} ELSE processedPrKeys

\* (variant: the dedup check is missing)
AlreadyProcessedNever(keys, prKey) == FALSE

\* processedPrKeys.has(prKey) (line 356)
AlreadyProcessed(keys, prKey) == prKey \in keys

\* (variant: the call is not awaited, the loop moves on while the PR fetch
\* is pending)
BeginNotificationNotAwaited ==
  /\ pc = "loop"
  /\ idx <= Len(shuffledNotifications)
  /\ LET notification == shuffledNotifications[idx]
         owner == notification.owner
         prKey == PrKey(notification)
     IN  /\ local' = [NoLocal EXCEPT !.prKey = prKey]
         /\ IF AlreadyProcessed(processedPrKeys, prKey)
              THEN idx' = idx /\ Return("already-processed", FALSE)
            ELSE IF skipNonOwnedRepos /\ owner # authenticatedUser
              THEN idx' = idx /\ Return("not-owned", TRUE)
            ELSE /\ pc' = "pulls.get"
                 /\ idx' = idx + 1
                 /\ UNCHANGED <<result, processedPrKeys>>
  /\ UNCHANGED <<config, suspended, openai, authenticatedUser, shuffledNotifications,
                 commentsCount, pass, dispatchLog>>

\* processNotification up to its first await: the dedup and ownership checks.
BeginNotification ==
  /\ pc = "loop"
  /\ idx <= Len(shuffledNotifications)
  /\ LET notification == shuffledNotifications[idx]
         owner == notification.owner
         prKey == PrKey(notification)
     IN  /\ local' = [NoLocal EXCEPT !.prKey = prKey]
         /\ IF AlreadyProcessed(processedPrKeys, prKey)
              THEN Return("already-processed", FALSE)
            ELSE IF skipNonOwnedRepos /\ owner # authenticatedUser
              THEN Return("not-owned", TRUE)
            ELSE /\ pc' = "pulls.get"
                 /\ UNCHANGED <<result, processedPrKeys>>
  /\ UNCHANGED <<config, suspended, openai, authenticatedUser, shuffledNotifications,
                 commentsCount, pass, idx, dispatchLog>>

\* (variant: the stall check is dropped from the gate)
IsCopilotPrOnly(isCopilot, stalledStatus) == isCopilot

\* (variant: the gate of line 386 looks at the stall only)
IsStalledOnly(isCopilot, stalledStatus) == stalledStatus

\* The gate on Copilot authorship and stall (line 386).
IsStalledCopilotPr(isCopilot, stalledStatus) == isCopilot /\ stalledStatus

\* pulls.get settles: the Copilot and stall gates, or the outer catch.
PullsGet ==
  /\ pc = "pulls.get"
  /\ \/ \E pr \in Prs(rich) :
          LET isCopilot == isCopilotPr(pr)
              wipStatus == isWip(pr)
              stalledStatus == isStalled(pr, stallThresholdMs)
          IN  /\ local' = [local EXCEPT !.pr = pr, !.isCopilot = isCopilot,
                                        !.wipStatus = wipStatus,
                                        !.stalledStatus = stalledStatus]
              /\ IF IsStalledCopilotPr(isCopilot, stalledStatus)
                   THEN /\ pc' = "issues.listEventsForTimeline"
                        /\ UNCHANGED <<result, processedPrKeys>>
                 ELSE IF ~isCopilot
                   THEN Return("not-copilot", TRUE)
                 ELSE Return("not-stalled", FALSE)
     \/ /\ local' = local
        /\ Return("fetch-error", TRUE)
  /\ UNCHANGED <<config, suspended, openai, authenticatedUser, shuffledNotifications,
                 commentsCount, pass, idx, dispatchLog>>

\* listEventsForTimeline settles; a rejection leaves timelineEvents = [].
ListEventsForTimeline ==
  /\ pc = "issues.listEventsForTimeline"
  /\ \E timelineEvents \in Timelines(rich) :
       \/ local' = [local EXCEPT !.timelineEvents = timelineEvents,
                                 !.sessionStopped = hasCopilotSessionStopped(timelineEvents)]
       \/ local' = [local EXCEPT !.timelineEvents = <<>>,
                                 !.sessionStopped = hasCopilotSessionStopped(<<>>)]
  /\ pc' = "issues.listComments"
  /\ UNCHANGED <<config, suspended, openai, authenticatedUser, shuffledNotifications,
                 commentsCount, processedPrKeys, pass, idx, result, dispatchLog>>

IsFromCopilot(c) == c.login = "copilot[bot]"

\* (variant: the first WIP gate turns nothing away)
RequiresWipNever(wipStatus, sessionStopped, hasError) ==
  FALSE

\* The first gate on WIP, session stop and error comment (line 427).
RequiresWip(wipStatus, sessionStopped, hasError) ==
  ~wipStatus /\ ~sessionStopped /\ ~hasError

\* (variant: the first WIP gate returns without adding the key)
AfterListCommentsLeavesKeyOpen(comments) ==
  LET latestCopilotComment == Find(comments, IsFromCopilot)
      hasError == isCopilotError(latestCopilotComment)
      hasSessionFailure == hasFailedCopilotSession(local.timelineEvents)
  IN  IF RequiresWip(local.wipStatus, local.sessionStopped, hasError)
        THEN /\ local' = [local EXCEPT !.comments = comments, !.hasError = hasError]
             /\ Return("requires-wip", FALSE)
        ELSE /\ local' = [local EXCEPT !.comments = comments, !.hasError = hasError,
                                       !.hasSessionFailure = hasSessionFailure,
                                       !.timelineEvents = <<>>]
             /\ pc' = "checks.listForRef"
             /\ UNCHANGED <<result, processedPrKeys>>

\* listComments settles: the error comment, the first WIP gate and the
\* session outcome; timelineEvents is not read after this step.
AfterListComments(comments) ==
  LET latestCopilotComment == Find(comments, IsFromCopilot)
      hasError == isCopilotError(latestCopilotComment)
      hasSessionFailure == hasFailedCopilotSession(local.timelineEvents)
  IN  IF RequiresWip(local.wipStatus, local.sessionStopped, hasError)
        THEN /\ local' = [local EXCEPT !.comments = comments, !.hasError = hasError]
             /\ Return("requires-wip", TRUE)
        ELSE /\ local' = [local EXCEPT !.comments = comments, !.hasError = hasError,
                                       !.hasSessionFailure = hasSessionFailure,
                                       !.timelineEvents = <<>>]
             /\ pc' = "checks.listForRef"
             /\ UNCHANGED <<result, processedPrKeys>>

ListComments ==
  /\ pc = "issues.listComments"
  /\ \E comments \in IssueComments(rich) :
       \/ AfterListComments(comments)
       \/ AfterListComments(<<>>)
  /\ UNCHANGED <<config, suspended, openai, authenticatedUser, shuffledNotifications,
                 commentsCount, pass, idx, dispatchLog>>

\* The second gate, with session failure and failing checks (line 457).
RequiresAttention(wipStatus, sessionStopped, hasError, hasSessionFailure, hasFailingChecks) ==
  ~wipStatus /\ ~sessionStopped /\ ~hasError /\ ~hasSessionFailure /\ ~hasFailingChecks

\* checks.listForRef settles: the second gate, the limit check before the
\* AI analysis, and the choice of the comment to analyse; comments is not
\* read after this step.
AfterListForRef(hasFailingChecks) ==
  LET latestComment == IF openai THEN findRelevantComment(local.comments) ELSE Undefined
  IN  IF RequiresAttention(local.wipStatus, local.sessionStopped, local.hasError,
                           local.hasSessionFailure, hasFailingChecks)
        THEN /\ local' = [local EXCEPT !.hasFailingChecks = hasFailingChecks]
             /\ Return("requires-attention", FALSE)
      ELSE IF commentsCount >= MAX_COMMENTS_PER_RUN
        THEN /\ local' = [local EXCEPT !.hasFailingChecks = hasFailingChecks]
             /\ Return("limit-before-analysis", TRUE)
      ELSE /\ local' = [local EXCEPT !.hasFailingChecks = hasFailingChecks,
                                     !.latestComment = latestComment,
                                     !.comments = <<>>]
           /\ pc' = IF openai /\ latestComment # Undefined
                      THEN "chat.completions.create"
                      ELSE "pulls.listReviewComments"
           /\ UNCHANGED <<result, processedPrKeys>>

\* (variant: listForRef is awaited outside a try of its own, a rejection
\* goes to the outer catch)
ListForRefThrows ==
  /\ pc = "checks.listForRef"
  /\ \/ AfterListForRef(hasFailingCheckRuns(local.pr.head_checks))
     \/ local' = local /\ Return("fetch-error", TRUE)
  /\ UNCHANGED <<config, suspended, openai, authenticatedUser, shuffledNotifications,
                 commentsCount, pass, idx, dispatchLog>>

ListForRef ==
  /\ pc = "checks.listForRef"
  /\ \/ AfterListForRef(hasFailingCheckRuns(local.pr.head_checks))
     \/ AfterListForRef(FALSE)
  /\ UNCHANGED <<config, suspended, openai, authenticatedUser, shuffledNotifications,
                 commentsCount, pass, idx, dispatchLog>>

\* isIssueFixed settles (it never rejects); latestComment is not read after
\* this step.
ChatCompletion ==
  /\ pc = "chat.completions.create"
  /\ \E reply \in OracleReplies(rich) :
       local' = [local EXCEPT !.isFixed = isIssueFixed(local.latestComment, openai, reply),
                              !.latestComment = Undefined]
  /\ pc' = "pulls.listReviewComments"
  /\ UNCHANGED <<config, suspended, openai, authenticatedUser, shuffledNotifications,
                 commentsCount, processedPrKeys, pass, idx, result, dispatchLog>>

\* (variant: the verdict of the oracle is ignored)
MayCommentFixedOrNot(isFixed, count) == count < MAX_COMMENTS_PER_RUN

\* The guard of the comment (line 533).
MayComment(isFixed, count) == ~isFixed /\ count < MAX_COMMENTS_PER_RUN

\* (variant: failing checks are looked at before the merge conflict)
CommentBodyChecksFirst(mergeConflict, hasFailingChecks, hasFeedback) ==
  IF hasFailingChecks
    THEN "@copilot The CI checks are failing. Please fix the failing tests or build issues."
  ELSE IF mergeConflict
    THEN "@copilot There is a merge conflict with the base branch. Please merge in the base branch and resolve the conflicts."
  ELSE IF hasFeedback
    THEN "@copilot please implement the feedback left on this PR."
  ELSE "@copilot still working?"

\* (variant: the chain has no final else, commentBody stays unset)
CommentBodyNoDefault(mergeConflict, hasFailingChecks, hasFeedback) ==
  IF mergeConflict
    THEN "@copilot There is a merge conflict with the base branch. Please merge in the base branch and resolve the conflicts."
  ELSE IF hasFailingChecks
    THEN "@copilot The CI checks are failing. Please fix the failing tests or build issues."
  ELSE IF hasFeedback
    THEN "@copilot please implement the feedback left on this PR."
  ELSE Null

\* The comment by priority (lines 535-544).
CommentBody(mergeConflict, hasFailingChecks, hasFeedback) ==
  IF mergeConflict
    THEN "@copilot There is a merge conflict with the base branch. Please merge in the base branch and resolve the conflicts."
  ELSE IF hasFailingChecks
    THEN "@copilot The CI checks are failing. Please fix the failing tests or build issues."
  ELSE IF hasFeedback
    THEN "@copilot please implement the feedback left on this PR."
  ELSE "@copilot still working?"

\* (variant: the increment is forgotten)
IncrementedNot(count) == count

\* (variant: a nudge is counted twice)
IncrementedTwice(count) == count + 2

\* commentsCount++
Incremented(count) == count + 1

Dispatched(how) == Append(dispatchLog, [key |-> local.prKey, pass |-> pass, how |-> how])

\* (variant: the dry-run test of line 546 is missing, the comment is posted)
AfterListReviewCommentsPosting(reviewComments) ==
  LET hasFeedback == hasReviewComments(reviewComments)
      mergeConflict == hasMergeConflict(local.pr)
      commentBody == CommentBody(mergeConflict, local.hasFailingChecks, hasFeedback)
      seen == [local EXCEPT !.reviewComments = reviewComments,
                            !.hasFeedback = hasFeedback, !.mergeConflict = mergeConflict]
  IN  /\ UNCHANGED <<commentsCount, dispatchLog>>
      /\ IF MayComment(local.isFixed, commentsCount)
           THEN /\ local' = [seen EXCEPT !.commentBody = commentBody]
                /\ pc' = "issues.createComment"
                /\ UNCHANGED <<result, processedPrKeys>>
         ELSE IF local.isFixed
           THEN local' = seen /\ Return("fixed", TRUE)
         ELSE local' = seen /\ Return("limit", TRUE)

\* (variant: a dry run does not count its would-be nudges)
AfterListReviewCommentsDryUncounted(reviewComments) ==
  LET hasFeedback == hasReviewComments(reviewComments)
      mergeConflict == hasMergeConflict(local.pr)
      commentBody == CommentBody(mergeConflict, local.hasFailingChecks, hasFeedback)
      seen == [local EXCEPT !.reviewComments = reviewComments,
                            !.hasFeedback = hasFeedback, !.mergeConflict = mergeConflict]
  IN  IF MayComment(local.isFixed, commentsCount)
        THEN /\ local' = [seen EXCEPT !.commentBody = commentBody]
             /\ IF ~dryRun
                  THEN /\ pc' = "issues.createComment"
                       /\ UNCHANGED <<result, processedPrKeys, commentsCount, dispatchLog>>
                  ELSE /\ commentsCount' = commentsCount
                       /\ dispatchLog' = Dispatched("dry-run")
                       /\ Return("bumped", TRUE)
      ELSE IF local.isFixed
        THEN /\ local' = seen
             /\ UNCHANGED <<commentsCount, dispatchLog>>
             /\ Return("fixed", TRUE)
      ELSE /\ local' = seen
           /\ UNCHANGED <<commentsCount, dispatchLog>>
           /\ Return("limit", TRUE)

\* listReviewComments settles: feedback, merge conflict and the decision;
\* in a dry run the nudge is counted here, else createComment is awaited.
AfterListReviewComments(reviewComments) ==
  LET hasFeedback == hasReviewComments(reviewComments)
      mergeConflict == hasMergeConflict(local.pr)
      commentBody == CommentBody(mergeConflict, local.hasFailingChecks, hasFeedback)
      seen == [local EXCEPT !.reviewComments = reviewComments,
                            !.hasFeedback = hasFeedback, !.mergeConflict = mergeConflict]
  IN  IF MayComment(local.isFixed, commentsCount)
        THEN /\ local' = [seen EXCEPT !.commentBody = commentBody]
             /\ IF ~dryRun
                  THEN /\ pc' = "issues.createComment"
                       /\ UNCHANGED <<result, processedPrKeys, commentsCount, dispatchLog>>
                  ELSE /\ commentsCount' = Incremented(commentsCount)
                       /\ dispatchLog' = Dispatched("dry-run")
                       /\ Return("bumped", TRUE)
      ELSE IF local.isFixed
        THEN /\ local' = seen
             /\ UNCHANGED <<commentsCount, dispatchLog>>
             /\ Return("fixed", TRUE)
      ELSE /\ local' = seen
           /\ UNCHANGED <<commentsCount, dispatchLog>>
           /\ Return("limit", TRUE)

ListReviewComments ==
  /\ pc = "pulls.listReviewComments"
  /\ \E reviewComments \in ReviewComments(rich) :
       \/ AfterListReviewComments(reviewComments)
       \/ AfterListReviewComments(<<>>)
  /\ UNCHANGED <<config, suspended, openai, authenticatedUser, shuffledNotifications, pass, idx>>

\* (variant: the outer catch does not add the key)
CreateCommentFailureRetried ==
  /\ pc = "issues.createComment"
  /\ local' = local
  /\ \/ /\ commentsCount' = Incremented(commentsCount)
        /\ dispatchLog' = Dispatched("posted")
        /\ Return("bumped", TRUE)
     \/ /\ UNCHANGED commentsCount
        /\ dispatchLog' = Dispatched("post-failed")
        /\ Return("post-error", FALSE)
  /\ UNCHANGED <<config, suspended, openai, authenticatedUser, shuffledNotifications, pass, idx>>

\* createComment settles: the nudge is counted, or the outer catch runs.
CreateComment ==
  /\ pc = "issues.createComment"
  /\ local' = local
  /\ \/ /\ commentsCount' = Incremented(commentsCount)
        /\ dispatchLog' = Dispatched("posted")
        /\ Return("bumped", TRUE)
     \/ /\ UNCHANGED commentsCount
        /\ dispatchLog' = Dispatched("post-failed")
        /\ Return("post-error", TRUE)
  /\ UNCHANGED <<config, suspended, openai, authenticatedUser, shuffledNotifications, pass, idx>>

Next ==
  \/ StartRun
  \/ GetAuthenticated
  \/ ListNotifications
  \/ BeginNotification
  \/ PullsGet
  \/ ListEventsForTimeline
  \/ ListComments
  \/ ListForRef
  \/ ChatCompletion
  \/ ListReviewComments
  \/ CreateComment
  \/ AfterNotification
  \/ EndOfPass

Spec == Init /\ [][Next]_vars

SpecLong == InitLong /\ [][Next]_vars

(* ---------------------- two invocations of run() ---------------------- *)
\* What one invocation of run() holds: its options, the variables its body
\* declares (lines 296-346) and the place it has reached.
Invocation ==
  [token |-> token, dryRun |-> dryRun, skipNonOwnedRepos |-> skipNonOwnedRepos,
   openai |-> openai, authenticatedUser |-> authenticatedUser,
   shuffledNotifications |-> shuffledNotifications,
   commentsCount |-> commentsCount, processedPrKeys |-> processedPrKeys,
   pass |-> pass, idx |-> idx, pc |-> pc, local |-> local, result |-> result,
   dispatchLog |-> dispatchLog]

\* The executing invocation has an await pending (that of a
\* processNotification call that has returned included), or has ended:
\* another invocation may take its turn.
AtSuspensionPoint ==
  pc \in { "users.getAuthenticated", "listNotificationsForAuthenticatedUser",
           "pulls.get", "issues.listEventsForTimeline", "issues.listComments",
           "checks.listForRef", "chat.completions.create",
           "pulls.listReviewComments", "issues.createComment",
           "returned", "completed", "failed" }

\* (variant: the counter and the set are declared once, at module level,
\* and a new invocation finds them as the last one left them)
DeclaredAtModuleLevel ==
  [commentsCount |-> commentsCount, processedPrKeys |-> processedPrKeys]

\* let commentsCount = 0; const processedPrKeys = new Set(); (lines 344-346)
Declared ==
  [commentsCount |-> 0, processedPrKeys |-> {}]

\* run(options) is called while the first invocation waits or after it has
\* ended; the new invocation executes up to its first await.
InvokeRun ==
  /\ suspended = NoInvocation
  /\ AtSuspensionPoint
  /\ suspended' = Invocation
  /\ token' \in BOOLEAN
  /\ dryRun' \in BOOLEAN
  /\ skipNonOwnedRepos' \in (IF rich THEN BOOLEAN ELSE {TRUE})
  /\ openai' = FALSE
  /\ authenticatedUser' = Null
  /\ shuffledNotifications' = <<>>
  /\ commentsCount' = Declared.commentsCount
  /\ processedPrKeys' = Declared.processedPrKeys
  /\ pass' = 1
  /\ idx' = 1
  /\ pc' = "run"
  /\ local' = NoLocal
  /\ result' = "none"
  /\ dispatchLog' = <<>>
  /\ UNCHANGED rich

\* The event loop runs the continuation of the other invocation: the two
\* change places, each keeping what it holds.
Resume ==
  /\ suspended # NoInvocation
  /\ AtSuspensionPoint
  /\ suspended.pc \notin {"completed", "failed"}
  /\ suspended' = Invocation
  /\ token' = suspended.token
  /\ dryRun' = suspended.dryRun
  /\ skipNonOwnedRepos' = suspended.skipNonOwnedRepos
  /\ openai' = suspended.openai
  /\ authenticatedUser' = suspended.authenticatedUser
  /\ shuffledNotifications' = suspended.shuffledNotifications
  /\ commentsCount' = suspended.commentsCount
  /\ processedPrKeys' = suspended.processedPrKeys
  /\ pass' = suspended.pass
  /\ idx' = suspended.idx
  /\ pc' = suspended.pc
  /\ local' = suspended.local
  /\ result' = suspended.result
  /\ dispatchLog' = suspended.dispatchLog
  /\ UNCHANGED rich

\* The listing (lines 313-332), the service answering with at most
\* MaxPairNotifs notifications.
ListFewNotifications ==
  /\ pc = "listNotificationsForAuthenticatedUser"
  /\ \/ \E notifications \in {l \in NotificationLists(rich) : Len(l) <= MaxPairNotifs} :
          LET prNotifications ==
                filterPrNotifications(notifications, skipNonOwnedRepos, authenticatedUser)
          IN  /\ shuffledNotifications' \in
                   {Renumbered(s) : s \in shuffleArray(prNotifications)}
              /\ pc' = "loop"
     \/ /\ pc' = "failed"
        /\ UNCHANGED shuffledNotifications
  /\ UNCHANGED <<config, suspended, openai, authenticatedUser, commentsCount,
                 processedPrKeys, pass, idx, local, result, dispatchLog>>

NextPair ==
  \/ StartRun
  \/ GetAuthenticated
  \/ ListFewNotifications
  \/ BeginNotification
  \/ PullsGet
  \/ ListEventsForTimeline
  \/ ListComments
  \/ ListForRef
  \/ ChatCompletion
  \/ ListReviewComments
  \/ CreateComment
  \/ AfterNotification
  \/ EndOfPass
  \/ InvokeRun
  \/ Resume

\* Two invocations of run() against plain fetch results, one after the
\* other or taking turns at their awaits.
SpecPair == InitLong /\ [][NextPair]_vars

\* A detailed run in which every call that is awaited settles, resolved or
\* rejected, and the continuation of each settled call is run.
SpecLive == Init /\ [][Next]_vars /\ WF_vars(Next)
(* ------------------- the exported helpers, called alone --------------- *)
\* The helpers are exported and called on their own (as the test suite
\* does); a call is kept in local as [fn, the arguments, returns].
PureReplies ==
  RichReplies \cup {"yes", "Eyes on it", "Y E S", "No, not yet", ""}

PureComments ==
  { Comment("alice", "Still working on it"),
    Comment("alice", "> @copilot still working? (asked twice)"),
    Comment("alice", "On it. @copilot The CI checks are failing again"),
    Comment("me", "@copilot still working?"),
    Comment("me", "@copilot please implement the feedback left on this PR."),
    Comment("me", "@copilot There is a merge conflict with the base branch. Please merge in the base branch and resolve the conflicts."),
    Comment("me", "@copilot The CI checks are failing. Please fix the failing tests or build issues.") }

\* All arrays of at most n elements of S.
RECURSIVE Arrays(_, _)
Arrays(S, n) ==
  IF n = 0 THEN {<<>>}
  ELSE LET shorter == Arrays(S, n - 1)
       IN  shorter \cup {Append(a, x) : a \in {b \in shorter : Len(b) = n - 1}, x \in S}

PureAges ==
  { 0, RELAXED_STALL_THRESHOLD_MS - 1, RELAXED_STALL_THRESHOLD_MS,
    RELAXED_STALL_THRESHOLD_MS + 1, STALL_THRESHOLD_MS - 1, STALL_THRESHOLD_MS,
    STALL_THRESHOLD_MS + 1, 24 * ONE_HOUR_IN_MS }

PureMergeable == {"true", "false", Null}
PureMergeableStates == {"dirty", "clean", "unknown", "blocked", "unstable"}

InitPure ==
  /\ token = TRUE
  /\ dryRun = FALSE
  /\ skipNonOwnedRepos = TRUE
  /\ rich = TRUE
  /\ openai = FALSE
  /\ authenticatedUser = Null
  /\ shuffledNotifications = <<>>
  /\ commentsCount = 0
  /\ processedPrKeys = {}
  /\ pass = 1
  /\ idx = 1
  /\ pc = "call"
  /\ local = [fn |-> "none"]
  /\ result = "none"
  /\ dispatchLog = <<>>
  /\ suspended = NoInvocation

\* All but local, which holds the call.
allButLocal ==
  <<config, suspended, openai, authenticatedUser, shuffledNotifications,
    commentsCount, processedPrKeys, pass, idx, pc, result, dispatchLog>>

CallIsIssueFixed ==
  /\ pc = "call"
  /\ \E latestComment \in PureComments \cup {Undefined}, client \in BOOLEAN,
        reply \in PureReplies :
       local' = [fn |-> "isIssueFixed", latestComment |-> latestComment,
                 openai |-> client, reply |-> reply,
                 returns |-> isIssueFixed(latestComment, client, reply)]
  /\ UNCHANGED allButLocal

CallIsStalled ==
  /\ pc = "call"
  /\ \E age \in PureAges, thresholdMs \in {STALL_THRESHOLD_MS, RELAXED_STALL_THRESHOLD_MS} :
       LET pr == [PrWip EXCEPT !.age = age]
       IN  local' = [fn |-> "isStalled", pr |-> pr, thresholdMs |-> thresholdMs,
                     returns |-> isStalled(pr, thresholdMs)]
  /\ UNCHANGED allButLocal

CallHasMergeConflict ==
  /\ pc = "call"
  /\ \E mergeable \in PureMergeable, mergeable_state \in PureMergeableStates :
       LET pr == [PrWip EXCEPT !.mergeable = mergeable, !.mergeable_state = mergeable_state]
       IN  local' = [fn |-> "hasMergeConflict", pr |-> pr,
                     returns |-> hasMergeConflict(pr)]
  /\ UNCHANGED allButLocal

NextPure ==
  \/ CallIsIssueFixed
  \/ CallIsStalled
  \/ CallHasMergeConflict

SpecPure == InitPure /\ [][NextPure]_vars

(* ============================== claims ================================ *)
Keys == {PrKey(shuffledNotifications[i]) : i \in 1..Len(shuffledNotifications)}

\* Positions of dispatchLog.
Entries == 1..Len(dispatchLog)
\* The nudges that count: comments posted, and would-be comments of a dry run.
CountedEntries == {i \in Entries : dispatchLog[i].how # "post-failed"}
\* The createComment calls made.
CreateCommentCalls == {i \in Entries : dispatchLog[i].how # "dry-run"}
EntriesOfPass(p) == {i \in CountedEntries : dispatchLog[i].pass = p}
KeysDispatchedInPass(p) == {dispatchLog[i].key : i \in {j \in Entries : dispatchLog[j].pass = p}}

\* C1 (as stated): the createComment calls of a live run, and the would-be
\* nudges of a dry run, number at most MAX_COMMENTS_PER_RUN = 5, whatever
\* the transport does.
C1_AllCallsWithinBudget == Len(dispatchLog) <= 5

\* C1 (amended): the nudges that went out (createComment calls that
\* succeeded, would-be nudges of a dry run) number at most 5 over both
\* passes; a createComment call that fails is not counted.
C1_NudgesWithinBudget == Cardinality(CountedEntries) <= 5

\* C1 witness: a run over more than five candidates that ended with five nudges.
C1_Witness ==
  /\ pc = "completed"
  /\ Len(shuffledNotifications) > 5
  /\ Cardinality(CountedEntries) = 5

\* C2: within one run no PR key is nudged twice, in either pass, also when
\* several notifications of the list are for the same PR.
C2_OncePerKey ==
  \A i, j \in Entries : dispatchLog[i].key = dispatchLog[j].key => i = j

\* C2 witness: two notifications for the same PR, the PR nudged, the run over.
C2_Witness ==
  /\ pc = "completed"
  /\ Len(dispatchLog) = 1
  /\ \E i, j \in 1..Len(shuffledNotifications) :
       /\ i # j
       /\ PrKey(shuffledNotifications[i]) = dispatchLog[1].key
       /\ PrKey(shuffledNotifications[j]) = dispatchLog[1].key

AwaitsOfProcessNotification ==
  { "pulls.get", "issues.listEventsForTimeline", "issues.listComments",
    "checks.listForRef", "chat.completions.create", "pulls.listReviewComments",
    "issues.createComment" }

\* C3: in pass 2 the notification of a PR nudged in pass 1 returns at the
\* dedup check: no PR fetch, no auxiliary fetch, no oracle call, no post,
\* and commentsCount and processedPrKeys stay as they are.
C3_NoSecondLook ==
  /\ [](pass = 2 /\ local.prKey \in KeysDispatchedInPass(1)
          => pc \notin AwaitsOfProcessNotification)
  /\ [][ (/\ pass = 2
          /\ pc = "loop"
          /\ idx <= Len(shuffledNotifications)
          /\ PrKey(shuffledNotifications[idx]) \in KeysDispatchedInPass(1))
         => (/\ pc' = "returned"
             /\ result' = "already-processed"
             /\ UNCHANGED <<commentsCount, processedPrKeys, dispatchLog>>) ]_vars

\* C3 witness: pass 2 has just skipped a PR that pass 1 nudged.
C3_Witness ==
  /\ pass = 2
  /\ pc = "returned"
  /\ result = "already-processed"
  /\ local.prKey \in KeysDispatchedInPass(1)

\* The states in which a nudge is decided or made for local.prKey.
Dispatching ==
  \/ pc = "issues.createComment"
  \/ pc = "returned" /\ result \in {"bumped", "post-error"}

ThresholdOfPass == IF pass = 1 THEN 3600000 ELSE 1800000

\* C4: a nudge is dispatched only for a PR that, in this evaluation, is a
\* Copilot PR, is stalled for the threshold of the pass, shows one of WIP,
\* session stopped, error comment, session failure, failing checks, and was
\* not judged fixed.
C4_OnlyEligible ==
  Dispatching =>
    /\ local.isCopilot
    /\ \/ local.pr.login = "copilot[bot]"
       \/ local.pr.title = "Copilot: Fix bug"
    /\ local.stalledStatus
    /\ local.pr.age > ThresholdOfPass
    /\ \/ local.wipStatus
       \/ local.sessionStopped
       \/ local.hasError
       \/ local.hasSessionFailure
       \/ local.hasFailingChecks
    /\ ~local.isFixed

\* C4 witness: a nudge has gone out in the relaxed pass.
C4_Witness ==
  /\ pc = "returned"
  /\ result = "bumped"
  /\ pass = 2
  /\ local.pr.age = ONE_HOUR_IN_MS

\* The keys a nudge was dispatched for, counted or not.
LoggedKeys == {dispatchLog[i].key : i \in Entries}

\* processNotification has returned after pulls.get resolved: local.pr is
\* the PR it looked at.
ReturnedWithPr ==
  /\ pc = "returned"
  /\ result \notin {"already-processed", "not-owned", "fetch-error"}

\* The PR of a returned call is stalled beyond the threshold of the pass and
\* fails the test of the first gate: no WIP, no session stop, no error comment.
StalledNotWip ==
  /\ ReturnedWithPr
  /\ isCopilotPr(local.pr)
  /\ local.pr.age > ThresholdOfPass
  /\ ~isWip(local.pr)
  /\ ~local.sessionStopped
  /\ ~local.hasError

\* C5 (as stated): a Copilot PR stalled beyond the threshold of the pass,
\* not WIP, with no session stop and no error comment, but with a failing
\* check run, is let through the gates while budget remains, and the nudge
\* made for it is the CI-failure one unless a merge conflict comes first.
C5_FailingChecksNudged ==
  (StalledNotWip /\ hasFailingCheckRuns(local.pr.head_checks) /\ commentsCount < 5)
    => /\ result \in {"bumped", "post-error", "fixed"}
       /\ (result = "bumped" /\ ~local.mergeConflict /\ local.hasFailingChecks)
            => local.commentBody = "@copilot The CI checks are failing. Please fix the failing tests or build issues."

\* C5 witness: such a PR with a failing check run was turned away before its
\* check runs were asked for.
C5_Witness ==
  /\ StalledNotWip
  /\ hasFailingCheckRuns(local.pr.head_checks)
  /\ commentsCount < 5
  /\ result = "requires-wip"
  /\ ~local.hasFailingChecks

\* C6: the comment of a nudge follows the priority merge conflict, failing
\* checks, review feedback, generic, first match wins, for every combination
\* of the three signals.
C6_PriorityOrder ==
  Dispatching =>
    /\ local.mergeConflict = (local.pr.mergeable = "false" /\ local.pr.mergeable_state = "dirty")
    /\ local.mergeConflict
         => local.commentBody = "@copilot There is a merge conflict with the base branch. Please merge in the base branch and resolve the conflicts."
    /\ (~local.mergeConflict /\ local.hasFailingChecks)
         => local.commentBody = "@copilot The CI checks are failing. Please fix the failing tests or build issues."
    /\ (~local.mergeConflict /\ ~local.hasFailingChecks /\ local.hasFeedback)
         => local.commentBody = "@copilot please implement the feedback left on this PR."
    /\ (~local.mergeConflict /\ ~local.hasFailingChecks /\ ~local.hasFeedback)
         => local.commentBody = "@copilot still working?"

\* C6 witness: a nudge went out with all three signals true.
C6_Witness ==
  /\ pc = "returned"
  /\ result = "bumped"
  /\ local.mergeConflict
  /\ local.hasFailingChecks
  /\ local.hasFeedback
  /\ local.commentBody = "@copilot There is a merge conflict with the base branch. Please merge in the base branch and resolve the conflicts."

\* C7: once the oracle has judged the latest relevant comment resolved, the
\* call ends without a comment: no createComment, commentsCount and the
\* nudges as they were, whatever the other signals are.
C7_FixedNotNudged ==
  /\ [](local.isFixed
          => /\ pc \in {"pulls.listReviewComments", "returned"}
             /\ pc = "returned" => (result = "fixed" /\ local.prKey \notin LoggedKeys))
  /\ [][ local.isFixed
           => /\ UNCHANGED <<commentsCount, dispatchLog>>
              /\ pc = "pulls.listReviewComments"
                   => (pc' = "returned" /\ result' = "fixed") ]_vars

\* C7 witness: a PR judged fixed was left alone although it is WIP, in
\* conflict, with failing checks, review feedback and a stopped session.
C7_Witness ==
  /\ pc = "returned"
  /\ result = "fixed"
  /\ local.isFixed
  /\ local.wipStatus
  /\ local.mergeConflict
  /\ local.hasFailingChecks
  /\ local.hasFeedback
  /\ local.sessionStopped

\* C8: pass 2 runs only if pass 1 ended with fewer than 2 nudges counted and
\* budget left; after 2 or more nudges in pass 1 the run stays in pass 1,
\* so no PR is evaluated with the relaxed threshold.
C8_SecondPassBelowFloor ==
  /\ pass = 2 => (Cardinality(EntriesOfPass(1)) < 2 /\ Cardinality(EntriesOfPass(1)) < 5)
  /\ Cardinality(EntriesOfPass(1)) >= 2 => (pass = 1 /\ stallThresholdMs = 3600000)

\* C8 witness: the run ended after pass 1 with 2 nudges, leaving a PR that
\* was never looked at with the relaxed threshold.
C8_Witness ==
  /\ pc = "completed"
  /\ pass = 1
  /\ Cardinality(EntriesOfPass(1)) = 2
  /\ Keys \ processedPrKeys # {}

\* The awaits of processNotification that follow pulls.get.
AwaitsAfterPullsGet == AwaitsOfProcessNotification \ {"pulls.get"}

\* C9: a Copilot PR that pass 1 finds not past the 1-hour threshold is not
\* nudged and its key stays out of processedPrKeys; in pass 2 a key that is
\* not in processedPrKeys is fetched again and judged by the 30-minute
\* threshold, and past the gates, with budget left, the nudge is made.
C9_RelaxedRetry ==
  /\ []((ReturnedWithPr /\ pass = 1 /\ isCopilotPr(local.pr) /\ local.pr.age <= 3600000)
          => /\ result = "not-stalled"
             /\ local.prKey \notin processedPrKeys
             /\ local.prKey \notin LoggedKeys)
  /\ []((pass = 2 /\ (pc \in AwaitsAfterPullsGet \/ ReturnedWithPr))
          => local.stalledStatus = (local.pr.age > 1800000))
  /\ [][ (/\ pass = 2
          /\ pc = "loop"
          /\ idx <= Len(shuffledNotifications)
          /\ PrKey(shuffledNotifications[idx]) \notin processedPrKeys)
         => pc' = "pulls.get" ]_vars
  /\ [][ (pass = 2 /\ pc = "pulls.listReviewComments" /\ ~local.isFixed /\ commentsCount < 5)
         => IF dryRun
              THEN /\ dispatchLog' = Append(dispatchLog, [key |-> local.prKey, pass |-> 2, how |-> "dry-run"])
                   /\ result' = "bumped"
              ELSE pc' = "issues.createComment" ]_vars

\* C9 witness: pass 2 has nudged a PR updated exactly one hour ago, which
\* pass 1 had found not stalled.
C9_Witness ==
  /\ pass = 2
  /\ pc = "returned"
  /\ result = "bumped"
  /\ isCopilotPr(local.pr)
  /\ local.pr.age = ONE_HOUR_IN_MS
  /\ local.prKey \in KeysDispatchedInPass(2)

\* C10 (as stated): a stalled Copilot PR that pass 1 turns away only for
\* want of WIP, session stop, error comment and failing checks keeps its key
\* out of processedPrKeys.
C10_GateLeavesKeyOpen ==
  (StalledNotWip /\ pass = 1 /\ ~hasFailingCheckRuns(local.pr.head_checks)
     /\ result \in {"requires-wip", "requires-attention"})
    => local.prKey \notin processedPrKeys

\* C10 witness: pass 1 has turned such a PR away and its key is in
\* processedPrKeys.
C10_Witness ==
  /\ StalledNotWip
  /\ pass = 1
  /\ ~hasFailingCheckRuns(local.pr.head_checks)
  /\ result = "requires-wip"
  /\ local.prKey \in processedPrKeys

\* C11: after a call that ended with a nudge counted, with the PR judged not
\* a Copilot PR, or with the PR fetch failing, the key is in
\* processedPrKeys; no key ever leaves the set, and a notification whose key
\* is in it returns at the dedup check.
C11_TerminalKeysStay ==
  /\ []((pc = "returned" /\ result \in {"bumped", "not-copilot", "fetch-error"})
          => local.prKey \in processedPrKeys)
  /\ [][processedPrKeys \subseteq processedPrKeys']_vars
  /\ [][ (/\ pc = "loop"
          /\ idx <= Len(shuffledNotifications)
          /\ PrKey(shuffledNotifications[idx]) \in processedPrKeys)
         => (/\ pc' = "returned"
             /\ result' = "already-processed"
             /\ UNCHANGED <<commentsCount, dispatchLog>>) ]_vars

\* C11 witness: pass 2 has skipped a PR that pass 1 made terminal without a
\* nudge, in a list with one notification per PR.
C11_Witness ==
  /\ pass = 2
  /\ pc = "returned"
  /\ result = "already-processed"
  /\ local.prKey \in processedPrKeys \ LoggedKeys
  /\ Cardinality(Keys) = Len(shuffledNotifications)

\* C12: in a dry run createComment is never awaited and no createComment
\* call is among the nudges of the run, in either pass.
C12_DryRunNeverPosts ==
  dryRun => (pc # "issues.createComment" /\ CreateCommentCalls = {})

\* C12 witness: a dry run has made would-be nudges in both passes.
C12_Witness ==
  /\ dryRun
  /\ pc = "completed"
  /\ EntriesOfPass(1) # {}
  /\ EntriesOfPass(2) # {}

\* The effect of a nudge that counts, on the state of the run.
NudgeCounted(how) ==
  /\ commentsCount' = commentsCount + 1
  /\ processedPrKeys' = processedPrKeys \cup {local.prKey}
  /\ dispatchLog' = Append(dispatchLog, [key |-> local.prKey, pass |-> pass, how |-> how])
  /\ pc' = "returned"
  /\ result' = "bumped"
  /\ UNCHANGED <<pass, idx, shuffledNotifications>>

\* C13: step by step a dry run does what a live run with successful posts
\* does. The decision at line 533 is the same in both; where the live run
\* awaits createComment and, the post made, counts the nudge and adds the
\* key, the dry run counts the nudge and adds the key at once; a call that
\* ends without a nudge ends the same way in both; pass 2 is entered only
\* from pass 1 with fewer than 2 nudges counted, and commentsCount is the
\* number of nudges counted.
C13_DryRunMirrorsLive ==
  /\ [](commentsCount = Cardinality(CountedEntries))
  /\ [][ (pc = "pulls.listReviewComments" /\ ~local.isFixed /\ commentsCount < 5)
         => IF dryRun
              THEN NudgeCounted("dry-run")
              ELSE /\ pc' = "issues.createComment"
                   /\ UNCHANGED <<commentsCount, processedPrKeys, dispatchLog, pass, idx>> ]_vars
  /\ [][ (pc = "issues.createComment" /\ result' = "bumped")
         => (~dryRun /\ local' = local /\ NudgeCounted("posted")) ]_vars
  /\ [][ (pc = "pulls.listReviewComments" /\ (local.isFixed \/ commentsCount >= 5))
         => (/\ pc' = "returned"
             /\ result' \in {"fixed", "limit"}
             /\ processedPrKeys' = processedPrKeys \cup {local.prKey}
             /\ UNCHANGED <<commentsCount, dispatchLog>>) ]_vars
  /\ [][ pass' # pass => (pass = 1 /\ pass' = 2 /\ commentsCount < 2) ]_vars

\* C13 witness: a dry run has counted a nudge in pass 2, after another PR
\* was made terminal without a nudge.
C13_Witness ==
  /\ dryRun
  /\ pass = 2
  /\ pc = "returned"
  /\ result = "bumped"
  /\ commentsCount = 1
  /\ processedPrKeys # LoggedKeys

\* C14: once commentsCount has reached 5 no processNotification call is
\* started or pending, in pass 1 or pass 2: the call that counted the fifth
\* nudge has returned with its nudge logged and its key added, and the run
\* goes on to its end.
C14_NoEvaluationAfterCap ==
  commentsCount >= 5
    => /\ commentsCount = 5
       /\ pc \in {"returned", "completed"}
       /\ pc = "returned"
            => /\ result = "bumped"
               /\ local.prKey \in processedPrKeys
               /\ dispatchLog[Len(dispatchLog)].key = local.prKey
               /\ dispatchLog[Len(dispatchLog)].how \in {"posted", "dry-run"}

\* C14 witness: the fifth nudge was counted in pass 2 and the run ended with
\* a PR left that was not evaluated again.
C14_Witness ==
  /\ pc = "completed"
  /\ pass = 2
  /\ commentsCount = 5
  /\ Keys \ processedPrKeys # {}

\* The notifications handed to processNotification so far.
Evaluated ==
  1..(IF idx <= Len(shuffledNotifications) THEN idx ELSE Len(shuffledNotifications))

\* Every candidate evaluated in the run was eligible at the strict threshold
\* and its post succeeded: each has its nudge of pass 1, posted, and no key
\* was made terminal in another way.
EveryCandidatePosted ==
  /\ \A i \in Entries : dispatchLog[i].how = "posted" /\ dispatchLog[i].pass = 1
  /\ \A i \in Evaluated : PrKey(shuffledNotifications[i]) \in LoggedKeys
  /\ processedPrKeys = LoggedKeys

\* C15: a live run over six or more candidates, each one evaluated being
\* eligible at the strict threshold and each post succeeding, ends with
\* exactly 5 createComment calls, for the first five candidates in shuffled
\* order.
C15_ExactlyFivePosts ==
  (pc = "completed" /\ ~dryRun /\ Len(shuffledNotifications) >= 6 /\ EveryCandidatePosted)
    => /\ Len(dispatchLog) = 5
       /\ commentsCount = 5
       /\ \A i \in 1..5 : dispatchLog[i].key = PrKey(shuffledNotifications[i])

\* C15 witness: such a run over six candidates has ended.
C15_Witness ==
  /\ pc = "completed"
  /\ ~dryRun
  /\ Len(shuffledNotifications) = 6
  /\ EveryCandidatePosted
  /\ Len(dispatchLog) = 5

\* The first five candidates in shuffled order got the five nudges of the
\* budget, in pass 1.
FirstFiveNudged ==
  /\ Len(shuffledNotifications) >= 6
  /\ Len(dispatchLog) = 5
  /\ \A i \in 1..5 :
       /\ dispatchLog[i].key = PrKey(shuffledNotifications[i])
       /\ dispatchLog[i].pass = 1
       /\ dispatchLog[i].how # "post-failed"

\* C16 (as stated): with the five nudges made for the first five of six
\* eligible PRs, the sixth PR is handed to processNotification too, which
\* ends at a limit-reached branch.
C16_SixthEvaluated ==
  (pc = "completed" /\ FirstFiveNudged) => idx >= 6

\* C16 (amended): with the five nudges made for the first five of six
\* eligible PRs, the loop breaks after the fifth: the sixth PR is never
\* handed to processNotification, nothing is fetched, posted or recorded for
\* it, and no call ever ends at a limit-reached branch.
C16_SixthNotEvaluated ==
  /\ result \notin {"limit", "limit-before-analysis"}
  /\ FirstFiveNudged
       => /\ pc \in {"returned", "completed"}
          /\ idx = 5
          /\ commentsCount = 5
          /\ PrKey(shuffledNotifications[6]) \notin processedPrKeys \cup LoggedKeys

\* C16 witness: a dry run over six candidates has ended after the fifth.
C16_Witness ==
  /\ pc = "completed"
  /\ dryRun
  /\ FirstFiveNudged
  /\ Len(shuffledNotifications) = 6
  /\ idx = 5

\* The four bodies a nudge may carry.
Templates ==
  { "@copilot There is a merge conflict with the base branch. Please merge in the base branch and resolve the conflicts.",
    "@copilot The CI checks are failing. Please fix the failing tests or build issues.",
    "@copilot please implement the feedback left on this PR.",
    "@copilot still working?" }

\* C17: the body handed to createComment is one of the four templates, and
\* so is the body of every nudge made or logged.
C17_BodyIsTemplate ==
  (pc = "issues.createComment" \/ (pc = "returned" /\ result \in {"bumped", "post-error"}))
    => local.commentBody \in Templates

\* C17 witness: createComment is awaited with the generic body, in a live run.
C17_Witness ==
  /\ pc = "issues.createComment"
  /\ ~dryRun
  /\ local.commentBody = "@copilot still working?"
  /\ ~local.mergeConflict /\ ~local.hasFailingChecks /\ ~local.hasFeedback

\* C18: a rejected pulls.get ends the call only: the call returns, with
\* commentsCount and the nudges as they were and only the key of this PR
\* added; the loop moves on to the next notification, and a notification
\* whose key is not in processedPrKeys has its PR fetched.
C18_FetchErrorIsLocal ==
  /\ [][ (pc = "pulls.get" /\ result' = "fetch-error")
         => (/\ pc' = "returned"
             /\ processedPrKeys' = processedPrKeys \cup {local.prKey}
             /\ UNCHANGED <<commentsCount, dispatchLog, pass, idx, shuffledNotifications>>) ]_vars
  /\ [][ (pc = "returned" /\ result = "fetch-error")
         => (/\ pc' = "loop"
             /\ idx' = idx + 1
             /\ UNCHANGED <<commentsCount, dispatchLog, pass, processedPrKeys>>) ]_vars
  /\ [][ (/\ pc = "loop"
          /\ idx <= Len(shuffledNotifications)
          /\ PrKey(shuffledNotifications[idx]) \notin processedPrKeys)
         => pc' = "pulls.get" ]_vars
  /\ [](pc = "failed" => shuffledNotifications = <<>> /\ idx = 1)

\* C18 witness: the PR fetch of the first candidate failed and the second
\* candidate got its nudge.
C18_Witness ==
  /\ pass = 1
  /\ idx = 2
  /\ pc = "returned"
  /\ result = "bumped"
  /\ commentsCount = 1
  /\ PrKey(shuffledNotifications[1]) \in processedPrKeys \ LoggedKeys

\* The awaits of the auxiliary fetches.
AuxiliaryAwaits ==
  { "issues.listEventsForTimeline", "issues.listComments", "checks.listForRef",
    "pulls.listReviewComments" }

C20_OnlyMissingTokenFails ==
  pc = "failed" => ~token

\* C20 witness: a run with a credential has failed, its notifications
\* listing or its user lookup rejected, before any notification was handled.
C20_Witness ==
  /\ pc = "failed"
  /\ token
  /\ shuffledNotifications = <<>>
  /\ dispatchLog = <<>>

\* C21: without a token the run fails at once: the first step of run is the
\* failure, and no lookup, listing, PR fetch, oracle call or post is ever
\* awaited.
C21_NoTokenFailsFirst ==
  /\ [](~token
          => /\ pc \in {"run", "failed"}
             /\ authenticatedUser = Null
             /\ shuffledNotifications = <<>>
             /\ dispatchLog = <<>>
             /\ commentsCount = 0
             /\ processedPrKeys = {})
  /\ [][ (~token /\ pc = "run") => pc' = "failed" ]_vars

\* C21 witness: a run without a token has failed.
C21_Witness ==
  /\ ~token
  /\ pc = "failed"
  /\ ~openai

\* C22: one notification at a time, in both passes. While a fetch, the
\* oracle call or the post of a notification is pending, that notification
\* is the one the loop stands at, and the loop does not move; between two
\* calls nothing is pending; commentsCount, processedPrKeys and the nudges
\* change only for the notification the loop stands at.
C22_OneEvaluationAtATime ==
  /\ []((pc \in AwaitsOfProcessNotification \cup {"returned"})
          => /\ idx \in 1..Len(shuffledNotifications)
             /\ local.prKey = PrKey(shuffledNotifications[idx]))
  /\ []((pc \notin AwaitsOfProcessNotification \cup {"returned"}) => local = NoLocal)
  /\ [][ (pc \in AwaitsOfProcessNotification)
         => (idx' = idx /\ pass' = pass /\ local'.prKey = local.prKey) ]_vars
  /\ [][ (processedPrKeys' # processedPrKeys \/ dispatchLog' # dispatchLog
            \/ commentsCount' # commentsCount)
         => (/\ idx \in 1..Len(shuffledNotifications)
             /\ idx' = idx
             /\ processedPrKeys' \subseteq processedPrKeys \cup {PrKey(shuffledNotifications[idx])}
             /\ \A i \in (1..Len(dispatchLog')) \ Entries :
                  dispatchLog'[i].key = PrKey(shuffledNotifications[idx])) ]_vars

\* C22 witness: in pass 2 the post for the second notification is pending,
\* the first having been dealt with.
C22_Witness ==
  /\ pass = 2
  /\ idx = 2
  /\ pc = "issues.createComment"
  /\ PrKey(shuffledNotifications[1]) \in processedPrKeys
  /\ local.prKey # PrKey(shuffledNotifications[1])

\* C23: isIssueFixed returns false when the comment or the client is
\* missing, whatever the oracle would have answered (it is not asked), and
\* false when the call to the oracle fails; it returns in every case.
C23_OracleDegradesToFalse ==
  local.fn = "isIssueFixed"
    => /\ local.returns \in BOOLEAN
       /\ (local.latestComment = Undefined \/ ~local.openai) => ~local.returns
       /\ local.reply = Throws => ~local.returns

\* C23 witness: comment and client are there, the call to the oracle has
\* failed, false was returned.
C23_Witness ==
  /\ local.fn = "isIssueFixed"
  /\ local.latestComment # Undefined
  /\ local.openai
  /\ local.reply = Throws
  /\ local.returns = FALSE

\* The replies of PureReplies that hold YES in some case, spaces around aside.
RepliesWithYes == {"YES", " Yes, resolved ", "yes", "Eyes on it"}

\* C24: with comment and client there and the oracle answering,
\* isIssueFixed returns true exactly for the replies that, trimmed and in
\* upper case, contain YES.
C24_FixedIffReplyHasYes ==
  (/\ local.fn = "isIssueFixed"
   /\ local.latestComment # Undefined
   /\ local.openai
   /\ local.reply # Throws)
    => local.returns = (local.reply \in RepliesWithYes)

\* C24 witness: the oracle has answered with YES in mixed case inside a
\* longer reply with spaces around, true was returned.
C24_Witness ==
  /\ local.fn = "isIssueFixed"
  /\ local.latestComment # Undefined
  /\ local.openai
  /\ local.reply = " Yes, resolved "
  /\ local.returns = TRUE

\* The bodies of PureComments that hold the text of a nudge.
NudgeBodies ==
  Templates \cup { "> @copilot still working? (asked twice)",
                   "On it. @copilot The CI checks are failing again" }

\* findRelevantComment, on every array of at most MaxComments comments of
\* PureComments: the first comment whose body holds no nudge, undefined if
\* every body holds one.
FirstWithoutNudge ==
  \A comments \in Arrays(PureComments, MaxComments) :
    LET found == findRelevantComment(comments)
        plain == {i \in 1..Len(comments) : comments[i].body \notin NudgeBodies}
    IN  IF plain = {}
          THEN found = Undefined
          ELSE \E i \in plain : /\ found = comments[i]
                                /\ \A j \in 1..(i - 1) : j \notin plain

\* C25: findRelevantComment returns the first comment, in the order given,
\* whose body holds none of the four nudges, or undefined; and the comment
\* the oracle is asked about in a run is never a nudge.
C25_OracleNeverSeesNudge ==
  /\ FirstWithoutNudge
  /\ pc = "chat.completions.create"
       => /\ local.latestComment # Undefined
          /\ local.latestComment.body \notin NudgeBodies

\* C25 witness: the oracle is asked about the comment that came after a
\* nudge of the tool in the list.
C25_Witness ==
  /\ pc = "chat.completions.create"
  /\ local.latestComment = Comment("alice", "Still working on it")

\* Notifications of every kind: an issue, a PR of another owner, two PRs of
\* the authenticated user.
PureNotifications ==
  { IssueNotification, ForeignPr,
    [type |-> "PullRequest", owner |-> "me", number |-> 1],
    [type |-> "PullRequest", owner |-> "me", number |-> 2] }

\* filterPrNotifications with skipNonOwnedRepos and the login "me", on every
\* array of at most MaxNotifs of PureNotifications: the PullRequest
\* notifications of owner "me", in their order, and nothing else.
OwnedPrsOnly ==
  \A notifications \in Arrays(PureNotifications, MaxNotifs) :
    LET kept == filterPrNotifications(notifications, TRUE, "me")
        Owned(n) == n.type = "PullRequest" /\ n.owner = "me"
    IN  /\ \A i \in 1..Len(kept) : Owned(kept[i])
        /\ kept = SelectSeq(notifications, Owned)

C28_StalledStrictlyBeyond ==
  local.fn = "isStalled" =>
    /\ local.thresholdMs \in {3600000, 1800000}
    /\ local.returns = (local.pr.age > local.thresholdMs)
    /\ local.pr.age = local.thresholdMs => local.returns = FALSE
    /\ local.pr.age = local.thresholdMs + 1 => local.returns = TRUE
    /\ local.pr.age < local.thresholdMs => local.returns = FALSE

\* C28 witness: isStalled was called with a PR updated exactly thirty
\* minutes ago and the thirty-minute threshold, and returned false.
C28_Witness ==
  /\ local.fn = "isStalled"
  /\ local.thresholdMs = 1800000
  /\ local.pr.age = 1800000
  /\ local.returns = FALSE

\* C29: hasMergeConflict(pr) returns true exactly when mergeable is false
\* and mergeable_state is 'dirty'; with mergeable null or true it returns
\* false whatever mergeable_state is.
C29_ConflictOnlyWhenExplicit ==
  local.fn = "hasMergeConflict" =>
    /\ local.returns = (local.pr.mergeable = "false" /\ local.pr.mergeable_state = "dirty")
    /\ local.pr.mergeable \in {Null, "true"} => local.returns = FALSE

\* C29 witness: hasMergeConflict was called with mergeable null and
\* mergeable_state 'dirty', and returned false.
C29_Witness ==
  /\ local.fn = "hasMergeConflict"
  /\ local.pr.mergeable = Null
  /\ local.pr.mergeable_state = "dirty"
  /\ local.returns = FALSE

\* The evaluation that returns in this step.
Returning == pc # "returned" /\ pc' = "returned"

\* C30: commentsCount starts at 0 and stays within 0..5; it changes only by
\* one upward, and only in the step in which an evaluation returns with its
\* nudge dispatched; an evaluation that returns in any other way (dedup
\* skip, non-owned, not a Copilot PR, not stalled, gate failed, judged
\* fixed, fetch error, post error) leaves it as it was.
C30_CounterOnlyCountsDispatches ==
  /\ commentsCount = 0
  /\ [](commentsCount \in 0..5)
  /\ [][ (commentsCount' # commentsCount)
           => (commentsCount' = commentsCount + 1 /\ Returning /\ result' = "bumped") ]_vars
  /\ [][ Returning
           => ((result' = "bumped") = (commentsCount' = commentsCount + 1)) ]_vars
  /\ [][ (Returning /\ result' # "bumped")
           => (commentsCount' = commentsCount) ]_vars

\* C30 witness: after four nudges counted, a fifth createComment call failed
\* and the counter still reads four.
C30_Witness ==
  /\ pc = "returned"
  /\ result = "post-error"
  /\ commentsCount = 4
  /\ Cardinality(CountedEntries) = 4
  /\ Len(dispatchLog) = 5

\* The oracle judged the PR fixed in pass 1 and the evaluation has returned.
JudgedFixedInPass1 == pc = "returned" /\ result = "fixed" /\ pass = 1

\* C31 (as stated): a PR judged fixed in pass 1 is not excluded from pass 2:
\* its key is left out of processedPrKeys, so that pass 2 evaluates it again.
C31_FixedEvaluatedAgain ==
  JudgedFixedInPass1 => local.prKey \notin processedPrKeys

\* C31 (amended): a PR judged fixed in pass 1 has its key in processedPrKeys
\* when the evaluation returns; no key leaves the set; and a notification
\* goes past the dedup check, to the PR fetch and on to the oracle, only
\* with its key outside the set, so pass 2 returns at the dedup check for
\* that PR and asks the oracle nothing about it.
C31_FixedIsTerminal ==
  /\ [](JudgedFixedInPass1 => (local.isFixed /\ local.prKey \in processedPrKeys))
  /\ [][ processedPrKeys \subseteq processedPrKeys' ]_vars
  /\ [][ (pc = "loop" /\ pc' # "loop" /\ local'.prKey \in processedPrKeys)
           => (pc' = "returned" /\ result' = "already-processed"
               /\ commentsCount' = commentsCount) ]_vars
  /\ [](pc \in AwaitsOfProcessNotification => local.prKey \notin processedPrKeys)

\* C31 witness: pass 1 has returned with the PR judged fixed, its key is in
\* processedPrKeys and the second pass is due.
C31_Witness ==
  /\ JudgedFixedInPass1
  /\ local.isFixed
  /\ local.prKey \in processedPrKeys
  /\ idx = Len(shuffledNotifications)
  /\ SecondPassWanted(commentsCount)

\* Where the first notification of key stands in shuffledNotifications.
PositionOf(key) ==
  CHOOSE i \in 1..Len(shuffledNotifications) :
    /\ PrKey(shuffledNotifications[i]) = key
    /\ \A j \in 1..(i - 1) : PrKey(shuffledNotifications[j]) # key

\* C32: shuffledNotifications is written once, when the notifications are
\* listed, before pass 1; each pass starts at its first element and goes
\* through it one element at a time, the evaluation under way being that of
\* element idx; pass 2 goes past the dedup check only for keys outside
\* processedPrKeys; so the nudges of each pass follow the order of the list.
C32_OneOrderForBothPasses ==
  /\ [][ (shuffledNotifications' # shuffledNotifications)
           => (/\ pc = "listNotificationsForAuthenticatedUser"
               /\ pass = 1 /\ idx = 1
               /\ shuffledNotifications = <<>>
               /\ pc' = "loop") ]_vars
  /\ [][ (pass' # pass) => (pass = 1 /\ pass' = 2 /\ idx' = 1) ]_vars
  /\ [][ (pass' = pass /\ idx' # idx)
           => (pc = "returned" /\ pc' = "loop" /\ idx' = idx + 1) ]_vars
  /\ []((pc \in AwaitsOfProcessNotification \/ pc = "returned")
          => /\ idx \in 1..Len(shuffledNotifications)
             /\ local.prKey = PrKey(shuffledNotifications[idx]))
  /\ []((pass = 2 /\ pc \in AwaitsOfProcessNotification)
          => local.prKey \notin processedPrKeys)
  /\ [](\A i, j \in Entries :
          (i < j /\ dispatchLog[i].pass = dispatchLog[j].pass)
            => PositionOf(dispatchLog[i].key) < PositionOf(dispatchLog[j].key))

\* C32 witness: a run has ended in which pass 1 nudged one PR and pass 2,
\* going through the same list, nudged two more, one of them standing before
\* the PR of pass 1 and one after it.
C32_Witness ==
  /\ pc = "completed"
  /\ Cardinality(EntriesOfPass(1)) = 1
  /\ Cardinality(EntriesOfPass(2)) >= 2
  /\ \E i \in EntriesOfPass(1) : \E j, k \in EntriesOfPass(2) :
       /\ PositionOf(dispatchLog[j].key) < PositionOf(dispatchLog[i].key)
       /\ PositionOf(dispatchLog[i].key) < PositionOf(dispatchLog[k].key)

\* The calls of one evaluation still ahead, by the place reached in it.
StepsLeftInEvaluation ==
  CASE pc = "loop" -> 9
    [] pc = "pulls.get" -> 8
    [] pc = "issues.listEventsForTimeline" -> 7
    [] pc = "issues.listComments" -> 6
    [] pc = "checks.listForRef" -> 5
    [] pc = "chat.completions.create" -> 4
    [] pc = "pulls.listReviewComments" -> 3
    [] pc = "issues.createComment" -> 2
    [] pc = "returned" -> 1
    [] OTHER -> 0

\* The loop positions (pass, idx) still ahead, the present one included.
PositionsLeft ==
  (2 - pass) * (Len(shuffledNotifications) + 1) + (Len(shuffledNotifications) + 1 - idx)

\* A number that every step of run makes smaller.
StepsLeft ==
  CASE pc \in {"completed", "failed"} -> 0
    [] pc = "run" -> 20 * (MaxNotifs + MaxLeanNotifs + 2) + 3
    [] pc = "users.getAuthenticated" -> 20 * (MaxNotifs + MaxLeanNotifs + 2) + 2
    [] pc = "listNotificationsForAuthenticatedUser" -> 20 * (MaxNotifs + MaxLeanNotifs + 2) + 1
    [] OTHER -> 10 * PositionsLeft + StepsLeftInEvaluation

\* C33: when every call settles once, every run ends: run either fails
\* before the passes or reports completion; the PR fetch is started only by
\* the loop, for its present position (pass, idx); each evaluation that
\* returns moves the loop to a later position, so each notification is
\* evaluated at most once per pass (at most 2N PR fetches over N
\* candidates); and every step brings the end nearer.
C33_RunTerminates ==
  /\ <>(pc \in {"completed", "failed"})
  /\ [](pass \in {1, 2} /\ idx \in 1..(Len(shuffledNotifications) + 1))
  /\ [][ (pc' = "pulls.get")
           => (pc = "loop" /\ pass' = pass /\ idx' = idx) ]_vars
  /\ [][ (pc = "returned")
           => \/ pc' = "completed"
              \/ pc' = "loop" /\ pass' = pass /\ idx' = idx + 1 ]_vars
  /\ [][ (pc = "loop" /\ pc' = "loop")
           => (pass = 1 /\ pass' = 2 /\ idx = Len(shuffledNotifications) + 1 /\ idx' = 1) ]_vars
  /\ [][ StepsLeft' < StepsLeft ]_vars
  /\ [](StepsLeft >= 0)
  /\ [](StepsLeft = 0 => pc \in {"completed", "failed"})

\* C33 witness: a run has reported completion after its second pass went
\* through the whole list, the last evaluation of all having fetched the PR.
C33_Witness ==
  /\ pc = "completed"
  /\ pass = 2
  /\ idx = Len(shuffledNotifications) + 1
  /\ Len(shuffledNotifications) = MaxNotifs
  /\ \A key \in Keys : key \in processedPrKeys
  /\ commentsCount = 1

\* C34: every invocation of run() starts with commentsCount 0 and an empty
\* processedPrKeys, whatever another invocation has counted or marked;
\* every step either is a step of the executing invocation and leaves all
\* that the waiting one holds as it was (its count, its set, the result of
\* its last evaluation), or hands the turn over and changes what neither
\* holds; and a notification is turned away at the dedup check only for a
\* key in the set of the invocation that evaluates it.
C34_StateScopedToOneRun ==
  /\ [](pc = "run" => (commentsCount = 0 /\ processedPrKeys = {}))
  /\ []((suspended # NoInvocation /\ suspended.pc = "users.getAuthenticated")
          => (suspended.commentsCount = 0 /\ suspended.processedPrKeys = {}))
  /\ [][ \/ suspended' = suspended
         \/ suspended # NoInvocation /\ suspended' = Invocation /\ Invocation' = suspended
         \/ suspended = NoInvocation /\ suspended' = Invocation /\ pc' = "run" ]_vars
  /\ [][ (pc = "loop" /\ pc' = "returned" /\ result' = "already-processed")
           => (local'.prKey \in processedPrKeys) ]_vars

\* C34 witness: two invocations taking turns have each nudged the same PR
\* and each counts one nudge; the evaluation of each has just returned.
C34_Witness ==
  /\ suspended # NoInvocation
  /\ pc = "returned" /\ result = "bumped"
  /\ suspended.pc = "returned" /\ suspended.result = "bumped"
  /\ commentsCount = 1 /\ suspended.commentsCount = 1
  /\ local.prKey = suspended.local.prKey
  /\ processedPrKeys = {local.prKey}
  /\ suspended.processedPrKeys = {local.prKey}

\* C35: whenever the review comments fetched for a PR that is nudged are not
\* empty, and the PR has neither a merge conflict nor failing checks, the
\* nudge is the feedback one, whoever wrote the review comments, also when
\* findLatestReviewComment finds none of them; with no review comment
\* fetched it is the generic one.
C35_FeedbackWhateverTheAuthor ==
  (Dispatching /\ ~local.mergeConflict /\ ~local.hasFailingChecks)
    => /\ local.hasFeedback = (local.reviewComments # <<>>)
       /\ local.reviewComments # <<>>
            => local.commentBody = "@copilot please implement the feedback left on this PR."
       /\ local.reviewComments = <<>>
            => local.commentBody = "@copilot still working?"

\* C35 witness: a PR without conflict or failing checks whose review
\* comments are all by copilot[bot] was nudged to implement the feedback.
C35_Witness ==
  /\ pc = "returned"
  /\ result = "bumped"
  /\ ~local.mergeConflict
  /\ ~local.hasFailingChecks
  /\ local.reviewComments # <<>>
  /\ \A i \in 1..Len(local.reviewComments) : local.reviewComments[i].login = "copilot[bot]"
  /\ findLatestReviewComment(local.reviewComments) = Undefined
  /\ local.commentBody = "@copilot please implement the feedback left on this PR."

\* The positions of dispatchLog at which createComment was rejected.
FailedPosts == {i \in Entries : dispatchLog[i].how = "post-failed"}

\* C36: when the createComment call of a live run is rejected, commentsCount
\* stays as it was, the key of the PR is added to processedPrKeys, the loop
\* goes on with the next notification of the pass, and no later step of the
\* run fetches or nudges that PR again.
C36_FailedPostIsTerminal ==
  /\ [][ (pc = "issues.createComment" /\ result' = "post-error")
           => (/\ ~dryRun
               /\ pc' = "returned"
               /\ commentsCount' = commentsCount
               /\ processedPrKeys' = processedPrKeys \cup {local.prKey}) ]_vars
  /\ [][ (pc = "returned" /\ result = "post-error")
           => (/\ pc' = "loop" /\ pass' = pass /\ idx' = idx + 1
               /\ commentsCount' = commentsCount
               /\ processedPrKeys' = processedPrKeys) ]_vars
  /\ [](\A i \in FailedPosts :
          /\ dispatchLog[i].key \in processedPrKeys
          /\ \A j \in Entries : j # i => dispatchLog[j].key # dispatchLog[i].key
          /\ ~(pc \in AwaitsOfProcessNotification /\ local.prKey = dispatchLog[i].key))
  /\ [](Cardinality(CountedEntries) = commentsCount)

\* C36 witness: the only createComment call of pass 1 was rejected, and
\* pass 2 has turned the notification of that PR away at the dedup check,
\* the counter still at 0.
C36_Witness ==
  /\ pass = 2
  /\ pc = "returned"
  /\ result = "already-processed"
  /\ commentsCount = 0
  /\ \E i \in FailedPosts : dispatchLog[i].key = local.prKey /\ dispatchLog[i].pass = 1

\* C37: no processNotification call starts, and none is under way, with
\* commentsCount at 5 or more: the loop is left as soon as the count
\* reaches 5, so neither limit branch of processNotification (before the AI
\* analysis, before the comment) is ever taken.
C37_LimitBranchesNeverTaken ==
  /\ [](pc = "loop" => commentsCount < 5)
  /\ [](pc \in AwaitsOfProcessNotification => commentsCount < 5)
  /\ [](result \notin {"limit", "limit-before-analysis"})
  /\ [][ (pc = "returned" /\ commentsCount >= 5) => (pc' = "completed") ]_vars

\* C37 witness: the fifth nudge ended pass 1 with notifications left in the
\* list, and the run reported completion without a second pass.
C37_Witness ==
  /\ pc = "completed"
  /\ pass = 1
  /\ commentsCount = 5
  /\ idx < Len(shuffledNotifications)

\* C38: pass 2 starts only from the end of the list in pass 1, with fewer
\* than 2 nudges counted; a pass-1 evaluation returns with its key outside
\* processedPrKeys exactly when it found a Copilot PR not stalled at the
\* one-hour threshold, every other outcome leaves the key in the set; no key
\* leaves the set; and pass 2 fetches a PR only with its key outside the
\* set.
C38_PassTwoSeesOnlyNotStalled ==
  /\ [][ (pass' # pass)
           => (/\ pass = 1 /\ pass' = 2
               /\ pc = "loop"
               /\ idx = Len(shuffledNotifications) + 1
               /\ commentsCount < 2) ]_vars
  /\ []((pass = 1 /\ pc = "returned")
          => /\ (local.prKey \notin processedPrKeys) = (result = "not-stalled")
             /\ result = "not-stalled"
                  => /\ isCopilotPr(local.pr)
                     /\ ~isStalled(local.pr, 3600000))
  /\ [][ processedPrKeys \subseteq processedPrKeys' ]_vars
  /\ []((pass = 2 /\ pc \in AwaitsOfProcessNotification)
          => local.prKey \notin processedPrKeys)
  /\ [][ (pass = 2 /\ pc = "loop" /\ pc' = "returned")
           => (result' = "already-processed" /\ local'.prKey \in processedPrKeys) ]_vars

\* C38 witness: pass 2 has nudged a Copilot PR that is stalled at thirty
\* minutes but not at one hour, in a list whose other PR pass 1 made
\* terminal.
C38_Witness ==
  /\ pass = 2
  /\ pc = "returned"
  /\ result = "bumped"
  /\ isCopilotPr(local.pr)
  /\ ~isStalled(local.pr, 3600000)
  /\ Cardinality(Keys) = 2
  /\ Keys \ {local.prKey} \subseteq processedPrKeys
  /\ EntriesOfPass(1) = {}

\* The ways an evaluation ends at a check that comes before the oracle.
TurnedAwayEarly ==
  { "already-processed", "not-owned", "fetch-error", "not-copilot", "not-stalled",
    "requires-wip", "requires-attention", "limit-before-analysis" }

\* C39: the oracle is asked only from the step that settles the check runs,
\* for a PR that in this evaluation is a Copilot PR, stalled for the
\* threshold of the pass, and WIP or with a stopped session, an error
\* comment, a failed session or failing checks, with commentsCount below 5,
\* an OpenAI client, and a comment to analyse that is none of the nudges;
\* an evaluation that has reached the oracle does not end at one of the
\* earlier checks, and one that ends there has asked the oracle nothing.
C39_OracleOnlyAfterTheGates ==
  /\ [](pc = "chat.completions.create"
          => /\ isCopilotPr(local.pr)
             /\ isStalled(local.pr, ThresholdOfPass)
             /\ \/ isWip(local.pr)
                \/ local.sessionStopped
                \/ local.hasError
                \/ local.hasSessionFailure
                \/ local.hasFailingChecks
             /\ commentsCount < 5
             /\ openai
             /\ local.latestComment # Undefined
             /\ IsRelevantComment(local.latestComment))
  /\ [][ (pc' = "chat.completions.create") => (pc = "checks.listForRef") ]_vars
  /\ [][ (pc \in {"chat.completions.create", "pulls.listReviewComments", "issues.createComment"})
           => (result' \notin TurnedAwayEarly) ]_vars
  /\ []((pc = "returned" /\ result \in TurnedAwayEarly)
          => (local.latestComment = Undefined /\ ~local.isFixed))

\* C39 witness: in pass 2 the oracle is being asked about a Copilot PR that
\* is not WIP and whose session has stopped.
C39_Witness ==
  /\ pc = "chat.completions.create"
  /\ pass = 2
  /\ isCopilotPr(local.pr)
  /\ ~isWip(local.pr)
  /\ local.sessionStopped
  /\ local.latestComment.login = "alice"
====
